---- MODULE Spec2Model ----
(***************************************************************************)
(* Model of the logistics watcher: three deployed variants of one webhook  *)
(* service (src/unnamed/part_001: single board with the staleness tracker  *)
(* and the duplicate suppressor; src/index.js: multi-board with the stuck  *)
(* and ambiguous-status trackers; src/unnamed/part_002: single board with  *)
(* the ambiguous-status tracker).  Time is Date.now() in milliseconds.     *)
(***************************************************************************)
EXTENDS Integers, Sequences, FiniteSets, TLC

VARIABLES
  variant,                \* which of the three programs is running
  config,                 \* process.env, read once at start-up
  scope,                  \* the items, texts and delays the deliveries are drawn from
  now,                    \* Date.now(), counted from the start of the process
  updateHistory,          \* Map itemId -> {lastUpdateText, firstSeenAt, lastSeenAt, updateCount}
  ambiguousStatusHistory, \* Map itemId -> {status, updateText, firstSeenAt, timeoutHours}
  recentAlerts,           \* Map alertKey -> timestamp
  last,                   \* what the most recent webhook delivery did (observation)
  trace,                  \* per item: what the trackers were fed (observation)
  passAt,                 \* alertKey -> time of the last isDuplicateAlert call that returned false
  postAt,                 \* alertKey -> time of the last chat post made for it
  events,                 \* webhook deliveries handled so far
  input,                  \* the call of a function taken by itself: its name and arguments
  output,                 \* what that call returned
  customerTracking,       \* the board: per item, the text of its customer-tracking column
  trackingWrites,         \* per item, the normalization writes issued so far (observation)
  handlers                \* the requests being handled at the same time, in arrival order

vars == <<variant, config, scope, now, updateHistory, ambiguousStatusHistory, recentAlerts,
          last, trace, passAt, postAt, events, input, output, customerTracking,
          trackingWrites, handlers>>

----------------------------------------------------------------------------
(* Bounds of the model *)

MaxEvents == 3

----------------------------------------------------------------------------
(* Values *)

Null == [null |-> TRUE]

MsPerMinute == 60 * 1000
MsPerHour == 60 * 60 * 1000

Items == {"101", "102"}

\* Math.round(x / (1000 * 60 * 60)) for x >= 0
RoundHours(ms) == (2 * ms + MsPerHour) \div (2 * MsPerHour)

----------------------------------------------------------------------------
(* What the deliveries are drawn from *)

\* the column of the latest status of part_001, and another column
LatestColumn == "text_latest"
OtherColumn == "status"

staleThresholdHours == 36
staleThresholdMs == staleThresholdHours * 60 * 60 * 1000

\* the time between two deliveries: within the suppression window, just past it,
\* exactly the staleness threshold, just past it
DelaysP1 == {1, 5 * MsPerMinute + 1, staleThresholdMs, staleThresholdMs + 1}

\* the texts of the columns of an item that the programs read: transit status,
\* customer name, latest location, region
Row(status, customer, location, region) ==
  [status |-> status, customer |-> customer, location |-> location, region |-> region]

\* a scope: the items, the update texts and the delays of the deliveries, the
\* boards they come from, the rows the board returns for an item, the replies of
\* the classification service and the outcomes of the contact search
Scope(items, texts, delays, boards, rows, replies, contacts) ==
  [items |-> items, texts |-> texts, delays |-> delays, boards |-> boards, rows |-> rows,
   replies |-> replies, contacts |-> contacts]

\* replies of the classification service that follow the format of the prompt
NoIssueReply ==
  [kind |-> "object", hasIssue |-> "false", isResolved |-> "false", issueType |-> "",
   severity |-> "low", reason |-> "normal progress", currentLocation |-> "",
   carrier |-> "unknown", route |-> "unknown"]

IssueReply(issueType, currentLocation) ==
  [kind |-> "object", hasIssue |-> "true", isResolved |-> "false",
   issueType |-> issueType, severity |-> "high", reason |-> "reported",
   currentLocation |-> currentLocation, carrier |-> "UPS", route |-> "India-UK"]

\* one item with two texts, or two items with the same text, or one item with
\* one text and a classifier that can also report stale tracking, or one item
\* whose one text, an issue to the classifier, is delivered every three minutes
ScopesP1 ==
  {Scope({"101"}, {"Held by customs", "In transit"}, DelaysP1, {},
         {Row("", "", "", "")}, {NoIssueReply, IssueReply("customs_held", "")}, {}),
   Scope({"101", "102"}, {"In transit"}, DelaysP1, {},
         {Row("", "", "", "")}, {NoIssueReply, IssueReply("customs_held", "")}, {}),
   Scope({"101"}, {"In transit"}, DelaysP1, {},
         {Row("", "", "", "")},
         {NoIssueReply, IssueReply("customs_held", ""), IssueReply("tracking_stale", "")},
         {}),
   Scope({"101"}, {"Held by customs"}, {3 * MsPerMinute}, {},
         {Row("", "", "", "")}, {IssueReply("customs_held", "")}, {})}

\* texts and delays around the timeouts of the ambiguous-status table
\* the item has a customer name; its transit status is empty or "Stuck"
RowsAmbiguous == {Row(status, "Acme Ltd", "", "") : status \in {"", "Stuck"}}

ScopesAmbiguous ==
  {Scope({"101"}, {"Exception", "Processing exception", "Delivered"},
         {1, 12 * MsPerHour - 1, 12 * MsPerHour}, {"162479257"}, RowsAmbiguous, {},
         {"found", "none"}),
   Scope({"101"}, {"Clearance processing", "DHL: Customs clearance"},
         {1, 18 * MsPerHour - 1, 18 * MsPerHour}, {"162479257"}, RowsAmbiguous, {},
         {"found", "none"}),
   Scope({"101"}, {"On hold", "Customs clearance"},
         {1, 6 * MsPerHour, 18 * MsPerHour}, {"162479257"}, RowsAmbiguous, {},
         {"found", "none"}),
   Scope({"101", "102"}, {"Processing"},
         {1, 24 * MsPerHour - 1, 24 * MsPerHour}, {"162479257"}, RowsAmbiguous, {},
         {"found", "none"})}

\* a reply that does not follow the format: no severity, no reason, an issue type
\* and a carrier of its own
OddReply ==
  [kind |-> "object", hasIssue |-> "true", isResolved |-> "false",
   issueType |-> "lost_in_space", severity |-> "", reason |-> "",
   currentLocation |-> "", carrier |-> "Royal Mail", route |-> ""]

GarbageReply ==
  [kind |-> "garbage", hasIssue |-> "missing", isResolved |-> "missing", issueType |-> "",
   severity |-> "", reason |-> "", currentLocation |-> "", carrier |-> "", route |-> ""]

\* part_001 with the classification service: an update that names a place, an
\* item whose latest location is empty, set, or reads "Unknown Location", and
\* replies with and without a location
ScopeLocationP1 ==
  Scope({"101"}, {"Held at STANSTED - UK"}, {1}, {},
        {Row("", "", location, "") : location \in {"", "Leipzig Hub", "Unknown Location"}},
        {NoIssueReply, IssueReply("hub_delay", "Cologne"), IssueReply("hub_delay", "")}, {})

\* part_001: the same update, one that names a place or one that does not, once
\* more after the staleness threshold
ScopeStaleP1 ==
  Scope({"101"}, {"In transit", "Held at STANSTED - UK"}, {staleThresholdMs + 1}, {},
        {Row("", "", location, "") : location \in {"", "Leipzig Hub"}},
        {NoIssueReply}, {})

\* part_001: replies inside and outside the format, and a reply that is no JSON
ScopeRepliesP1 ==
  Scope({"101"}, {"In transit", "DHL: Clearance event"}, {1}, {}, {Row("", "", "", "")},
        {NoIssueReply, IssueReply("customs_held", ""), OddReply, GarbageReply}, {})

\* part_001 without the classification service
ScopeRulesP1 ==
  Scope({"101"}, {"UPS: Held by customs - import duties required", "In transit"}, {1}, {},
        {Row("", "", "", "")}, {}, {})

\* index.js and part_002: updates that ask for a customer notification (one of
\* them no issue to the classifier) and one that does not, an item with and
\* without a customer name, and every outcome of the contact search
ScopeEmail ==
  Scope({"101"}, {"Premises closed", "Consignee refused delivery",
                  "Held by customs - import duties required"}, {1}, {"162479257"},
        {Row("", customer, "", "") : customer \in {"", "Acme Ltd"}}, {},
        {"found", "none", "failed"})

\* index.js and part_002: one update that asks for a customer notification, for
\* deployments without HubSpot key or without mail transporter
ScopeEmailOff ==
  Scope({"101"}, {"Premises closed", "Delivery attempted"}, {1}, {"162479257"},
        {Row("", "Acme Ltd", "", "")}, {}, {"found"})

\* index.js: the boards of one region, an update that names a place, an item with
\* and without latest location, stuck or not
ScopeBoards ==
  Scope({"101"}, {"On hold at LEIPZIG - DE"}, {1, 6 * MsPerHour},
        {"9371038978", "9371042358"},
        {Row(status, "", location, "") :
           status \in {"", "Stuck"}, location \in {"", "Leipzig Hub"}}, {}, {})

\* event.value.value of an event whose value is the JSON number 42: it is truthy
\* and has no toLowerCase
NumberValue == "#42"

\* index.js and part_002: an update that is text, one that is an ambiguous status
\* and one that is a number, for an item that is stuck or not
ScopeNumber ==
  Scope({"101"}, {"In transit", "Processing exception", NumberValue}, {1}, {"162479257"},
        {Row(status, "", "", "") : status \in {"", "Stuck"}}, {}, {})

\* part_001 and index.js on two items with the same update, delivered within
\* and past the staleness threshold and the timeout of "processing"
ScopeTwoItemsP1 ==
  Scope({"101", "102"}, {"In transit"}, {1, staleThresholdMs + 1}, {},
        {Row("", "", "", "")}, {NoIssueReply}, {})

ScopeTwoItemsIdx ==
  Scope({"101", "102"}, {"Processing"}, {1, 24 * MsPerHour}, {"162479257"},
        {Row("", "", "", "")}, {}, {})

\* the deployments of the three programs: the environment and the scope
Deployment(v, alwaysAlert, gemini, hubspot, gmail, sc) ==
  [variant |-> v,
   config |-> [ALWAYS_ALERT |-> alwaysAlert,
               LATEST_UPDATE_COLUMN_ID |-> IF v = "part_001" THEN LatestColumn ELSE "",
               GEMINI_API_KEY |-> gemini, HUBSPOT_API_KEY |-> hubspot, GMAIL |-> gmail],
   scope |-> sc]

Deployments ==
  {Deployment("part_001", FALSE, TRUE, FALSE, FALSE, ScopeLocationP1),
   Deployment("part_001", FALSE, TRUE, FALSE, FALSE, ScopeStaleP1),
   Deployment("part_001", FALSE, TRUE, FALSE, FALSE, ScopeRepliesP1),
   Deployment("part_001", FALSE, FALSE, FALSE, FALSE, ScopeRulesP1),
   Deployment("part_001", TRUE, TRUE, FALSE, FALSE, ScopeRulesP1),
   Deployment("index", FALSE, FALSE, TRUE, TRUE, ScopeEmail),
   Deployment("index", FALSE, FALSE, FALSE, TRUE, ScopeEmailOff),
   Deployment("index", FALSE, FALSE, TRUE, FALSE, ScopeEmailOff),
   Deployment("index", FALSE, FALSE, TRUE, TRUE, ScopeBoards),
   Deployment("part_002", FALSE, FALSE, TRUE, TRUE, ScopeEmail),
   Deployment("part_002", FALSE, FALSE, TRUE, FALSE, ScopeEmailOff),
   Deployment("index", FALSE, FALSE, TRUE, TRUE, ScopeNumber),
   Deployment("part_002", FALSE, FALSE, TRUE, TRUE, ScopeNumber),
   Deployment("part_001", FALSE, TRUE, FALSE, FALSE, ScopeTwoItemsP1),
   Deployment("index", FALSE, FALSE, TRUE, TRUE, ScopeTwoItemsIdx)}

\* update texts a classifier is called with by itself: delivered phrases alone
\* and next to other patterns, each family of issue patterns with and without a
\* carrier, the customer-notification phrases, and texts without any pattern
FunctionTexts ==
  {"", "In transit", "Delivered",
   "DHL: Delivered - customs delay",
   "Shipment delivered after delivery exception",
   "Delivery complete - held by customs earlier",
   "UPS: Left with neighbour, premises closed",
   "Signed for by J SMITH; package damaged",
   "Undelivered - return to sender",
   "UPS: Held by customs - import duties required",
   "Held by customs - import duties required",
   "DHL: Clearance event", "FedEx: broker notified", "UPS: Customs cleared, duties paid",
   "Exception at depot near Leipzig", "Royal Mail reports delay",
   "FedEx: weather delay", "UPS in transit, weather delay", "Missing EORI number",
   "Premises closed", "Consignee unavailable", "Consignee refused delivery",
   "Incorrect address", "Delivery attempted",
   "UPS: Released by customs after customs delay",
   "DHL: Clearance processing complete",
   "FedEx: released by customs, broker notified",
   "Delivery exception - held at Heathrow, flight delay",
   "Royal Mail delay, parcel held at Heathrow",
   "Held at Heathrow - flight delay", "Flight delay, parcel damaged",
   "Damaged - VAT form needed", "DHL: Forwarded to agent, customs delay",
   "EORI number needed for export declaration"}

\* the values of the region column
Regions == {"", "India", "IN", "China", "CN", "Portugal", "PT", "Spain", "Vietnam"}

----------------------------------------------------------------------------
(* index.js: BOARD_CONFIGS, with the default user ids of the coordinators *)

RACHEL_USER_ID == "D08MAQ61878"
HARITHA_USER_ID == "D08HQ5GQCAW"

\* `<@${id}>`
Mention(id) == "<@" \o id \o ">"

IndiaBoard == "9371038978"
PortugalBoard == "9371042358"
ChinaBoard == "9371034380"
MainBoard == "162479257"
UnknownBoard == "1"

\* coordinator is "" where the code has null
BOARD_CONFIGS ==
  (IndiaBoard :>
     [name |-> "India", region |-> "INDIA", coordinator |-> Mention(HARITHA_USER_ID),
      columns |->
        [region |-> "status77", customerName |-> "text1", companyName |-> "text3",
         customerTracking |-> "text_mkvcce8m", latestUpdate |-> "text_mkvc93tw",
         latestLocation |-> "text_mkvcg0xs", latestUpdateDate |-> "date_mkvey807",
         transitStatus |-> "color_mkvew24q", partNumber |-> "text0"]])
  @@ (PortugalBoard :>
     [name |-> "Portugal", region |-> "PORTUGAL", coordinator |-> "",
      columns |->
        [region |-> "status77", customerName |-> "text1", companyName |-> "text3",
         customerTracking |-> "text_mkvc9fc5", latestUpdate |-> "text_mkvccynd",
         latestLocation |-> "text_mkvcna6n", latestUpdateDate |-> "date_mkvc9ja0",
         transitStatus |-> "color_mkvedscf", partNumber |-> "text0"]])
  @@ (ChinaBoard :>
     [name |-> "China", region |-> "CHINA", coordinator |-> Mention(RACHEL_USER_ID),
      columns |->
        [region |-> "status77", customerName |-> "text1", companyName |-> "text3",
         customerTracking |-> "text_mkvcdqrw", latestUpdate |-> "text_mkvcmtre",
         latestLocation |-> "text_mkvc8tw8", latestUpdateDate |-> "date_mkvcbzsv",
         transitStatus |-> "color_mkvev72x", partNumber |-> "text0"]])
  @@ (MainBoard :>
     [name |-> "Main", region |-> "MIXED", coordinator |-> "",
      columns |->
        [region |-> "status77", customerName |-> "text1", companyName |-> "text3",
         customerTracking |-> "text_mkvcce8m", latestUpdate |-> "text_1__1",
         latestLocation |-> "text_mkvcg0xs", latestUpdateDate |-> "date_mkvey807",
         transitStatus |-> "color_mkvew24q", partNumber |-> "text0"]])

----------------------------------------------------------------------------
(* part_001: ISSUE_PATTERNS.  Every pattern is a case-insensitive alternation *)
(* of literal phrases; delivered is matched at word boundaries; hubIssues and *)
(* ukEuDelivery are a phrase of `first', any characters, a phrase of `then'.  *)

ISSUE_PATTERNS ==
  [delivered |->
      {"delivered", "shipment delivered", "delivery complete", "left with", "signed for by"},
   upsNormalIndia |->
      {"warehouse scan", "facility scan", "package received", "origin scan",
       "departure scan", "arrived at ups facility", "departed ups facility", "in transit",
       "export scan", "import scan", "cleared customs", "customs clearance complete",
       "out for delivery"},
   dhlNormalChina |->
      {"shipment information received", "collected", "arrived at dhl facility",
       "departed from dhl facility", "processed at", "forwarded to",
       "arrived at destination", "with delivery courier", "en route to delivery",
       "shipment on hold for delivery", "delivery courier"},
   fedexNormalChina |->
      {"shipment information sent", "picked up", "arrived at fedex location",
       "departed fedex location", "in transit", "customs status updated",
       "international shipment release", "on fedex vehicle", "out for delivery"},
   upsCustomsIndia |->
      {"held by customs", "customs delay", "customs clearance delay",
       "awaiting customs clearance", "held for customs inspection",
       "import duties required", "customs documentation required", "held pending customs"},
   upsCustomsResolvedIndia |->
      {"customs clearance complete", "released by customs", "import scan complete",
       "customs cleared", "duties paid"},
   dhlCustomsChina |->
      {"clearance processing", "customs clearance", "held for customs clearance",
       "clearance event", "customs status updated - held", "awaiting customs clearance",
       "import customs clearance", "customs delay", "document required",
       "duty payment required", "kyc", "know your customer"},
   dhlCustomsResolvedChina |->
      {"clearance processing complete", "clearance complete", "customs clearance complete",
       "released by customs", "import customs clearance complete",
       "customs status updated - cleared"},
   fedexCustomsChina |->
      {"customs status updated", "held by customs", "clearance delay",
       "international shipment - customs delay", "awaiting clearance",
       "customs clearance in progress", "broker notified", "duty/tax required"},
   fedexCustomsResolvedChina |->
      {"international shipment release", "customs clearance complete",
       "released by customs", "cleared customs"},
   deliveryFailed |->
      {"delivery attempted", "delivery exception", "recipient unavailable",
       "address incorrect", "consignee unavailable", "no one available",
       "incorrect address", "access denied", "refused", "undeliverable",
       "return to sender", "held for pickup", "delivery not attempted",
       "customer not available", "premises closed"},
   transitIssues |->
      {"flight delay", "aircraft delay", "weather delay", "operational delay",
       "mechanical delay", "service disruption", "network disruption", "shipment delay",
       "transportation delay"},
   hubIssues |->
      [first |-> {"held at", "processing delay at", "delayed at", "exception at"},
       then |-> {"heathrow", "gatwick", "stansted", "east midlands", "cologne", "leipzig",
                 "paris", "amsterdam", "madrid"}],
   damageOrLoss |->
      {"damaged", "lost", "missing", "investigation", "claim", "package contents",
       "integrity", "security", "theft", "misrouted", "cannot locate"},
   ukEuDelivery |->
      [first |-> {"royal mail", "parcelforce", "dpd", "yodel", "hermes", "evri",
                   "local courier", "final mile", "domestic delivery partner"},
       then |-> {"delay", "exception", "failed", "attempted"}],
   brexitEu |->
      {"brexit", "eu customs", "european union", "vat", "tariff", "commodity code", "eori",
       "export declaration", "import declaration", "c88", "sad",
       "single administrative document"} ]

\* Object.entries(CUSTOMER_NOTIFICATION_PATTERNS): each pattern is an alternation
\* of literal phrases, matched case-insensitively
CUSTOMER_NOTIFICATION_PATTERNS ==
  << [reason |-> "premisesClosed",
      phrases |-> {"consignee premises closed", "premises closed", "office closed",
                   "business closed"}],
     [reason |-> "consigneeUnavailable",
      phrases |-> {"consignee unavailable", "recipient unavailable", "no one available",
                   "customer not available"}],
     [reason |-> "refusedDelivery",
      phrases |-> {"refused delivery", "delivery refused", "consignee refused"}],
     [reason |-> "incorrectAddress",
      phrases |-> {"address incorrect", "incorrect address", "address insufficient",
                   "invalid address"}] >>

----------------------------------------------------------------------------
(* Strings: String.prototype.includes and toLowerCase *)

Scan(text, part) ==
  \E i \in 1..(Len(text) - Len(part) + 1) : SubSeq(text, i, i + Len(part) - 1) = part

\* the letters toLowerCase changes
LowerCaseOf ==
  ("A" :> "a") @@ ("B" :> "b") @@ ("C" :> "c") @@ ("D" :> "d") @@ ("E" :> "e") @@
    ("F" :> "f") @@ ("G" :> "g") @@ ("H" :> "h") @@ ("I" :> "i") @@ ("J" :> "j") @@
    ("K" :> "k") @@ ("L" :> "l") @@ ("M" :> "m") @@ ("N" :> "n") @@ ("O" :> "o") @@
    ("P" :> "p") @@ ("Q" :> "q") @@ ("R" :> "r") @@ ("S" :> "s") @@ ("T" :> "t") @@
    ("U" :> "u") @@ ("V" :> "v") @@ ("W" :> "w") @@ ("X" :> "x") @@ ("Y" :> "y") @@
    ("Z" :> "z")

LowerChar(c) == IF c \in DOMAIN LowerCaseOf THEN LowerCaseOf[c] ELSE c

RECURSIVE LowerOf(_)
LowerOf(s) ==
  IF Len(s) = 0 THEN s
  ELSE LowerChar(SubSeq(s, 1, 1)) \o LowerOf(SubSeq(s, 2, Len(s)))

\* s.toLowerCase()
ToLowerCase(s) == LowerOf(s)

\* text.includes(part)
Includes(text, part) == Scan(text, part)

\* s.trim()
RECURSIVE TrimStart(_)
TrimStart(s) ==
  IF Len(s) > 0 /\ SubSeq(s, 1, 1) = " " THEN TrimStart(SubSeq(s, 2, Len(s))) ELSE s

RECURSIVE TrimEnd(_)
TrimEnd(s) ==
  IF Len(s) > 0 /\ SubSeq(s, Len(s), Len(s)) = " "
  THEN TrimEnd(SubSeq(s, 1, Len(s) - 1)) ELSE s

Trim(s) == TrimEnd(TrimStart(s))

\* \w of a regular expression, on lower-case text
WordChar(c) ==
  c \in {"a", "b", "c", "d", "e", "f", "g", "h", "i", "j", "k", "l", "m", "n", "o", "p",
          "q", "r", "s", "t", "u", "v", "w", "x", "y", "z", "0", "1", "2", "3", "4", "5",
          "6", "7", "8", "9", "_"}

\* /\b(part)\b/.test(text), for a part that begins and ends with a word
\* character: an occurrence with no word character next to it
WordScan(text, part) ==
  \E i \in 1..(Len(text) - Len(part) + 1) :
    /\ SubSeq(text, i, i + Len(part) - 1) = part
    /\ i = 1 \/ ~WordChar(SubSeq(text, i - 1, i - 1))
    /\ i + Len(part) > Len(text) \/ ~WordChar(SubSeq(text, i + Len(part), i + Len(part)))

\* /(first).*(then)/.test(text) on a text of one line: an occurrence of `then'
\* that begins at or after the end of an occurrence of `first'
ScanThen(text, first, then) ==
  \E i \in 1..(Len(text) - Len(first) + 1) :
    /\ SubSeq(text, i, i + Len(first) - 1) = first
    /\ \E j \in (i + Len(first))..(Len(text) - Len(then) + 1) :
         SubSeq(text, j, j + Len(then) - 1) = then

----------------------------------------------------------------------------
(* index.js: tracking numbers *)

AlphaNumeric ==
  {"a", "b", "c", "d", "e", "f", "g", "h", "i", "j", "k", "l", "m", "n", "o", "p", "q",
   "r", "s", "t", "u", "v", "w", "x", "y", "z", "0", "1", "2", "3", "4", "5", "6", "7",
   "8", "9"}

\* s[i], "" past the end
CharAt(s, i) == IF i >= 1 /\ i <= Len(s) THEN SubSeq(s, i, i) ELSE ""

RECURSIVE AlnumRun(_, _)
\* the number of characters of [A-Za-z0-9] that s has from position i on
AlnumRun(s, i) ==
  IF LowerChar(CharAt(s, i)) \in AlphaNumeric THEN 1 + AlnumRun(s, i + 1) ELSE 0

\* [=\-:]?([A-Za-z0-9]{8,35}) at position j of s: the group, "" for no match.
\* The separator is no character of the group, so it is taken when it is there
Captured(s, j) ==
  LET k == IF CharAt(s, j) \in {"=", "-", ":"} THEN j + 1 ELSE j
      run == AlnumRun(s, k)
  IN IF run >= 8 THEN SubSeq(s, k, k + (IF run > 35 THEN 35 ELSE run) - 1) ELSE ""

\* the keyword, in lower case, is at position i of s whatever the case (flag i)
KeywordAt(s, i, keyword) ==
  /\ i + Len(keyword) - 1 <= Len(s)
  /\ LowerOf(SubSeq(s, i, i + Len(keyword) - 1)) = keyword

RECURSIVE AlternativeAt(_, _, _)
\* (?:k1|k2|...)[=\-:]?([A-Za-z0-9]{8,35}) at position i: the group of the first
\* alternative that leads to a match
AlternativeAt(s, i, keywords) ==
  IF keywords = <<>> THEN ""
  ELSE IF KeywordAt(s, i, Head(keywords)) /\ Captured(s, i + Len(Head(keywords))) # ""
  THEN Captured(s, i + Len(Head(keywords)))
  ELSE AlternativeAt(s, i, Tail(keywords))

RECURSIVE KeywordMatch(_, _, _)
\* s.match(rx)[1] for the leftmost match from position i on, "" for no match
KeywordMatch(s, i, keywords) ==
  IF i > Len(s) THEN ""
  ELSE IF AlternativeAt(s, i, keywords) # "" THEN AlternativeAt(s, i, keywords)
  ELSE KeywordMatch(s, i + 1, keywords)

\* the keywords of the three carriers; tracknumbers? is tracknumbers, then
\* tracknumber
dhlKeywords == <<"tracking-id", "awb", "piececode", "trackingnumber">>
fedexKeywords == <<"tracknumbers", "tracknumber", "trackingnumber">>
upsKeywords == <<"tracknum", "trackingnumber">>

\* (?:\/|=)([A-Za-z0-9]{8,35})(?:[\/&?#]|$) at position i: what follows the group
\* is no character of the group, so the group is the whole run
GenericAt(s, i) ==
  LET run == AlnumRun(s, i + 1)
  IN IF /\ CharAt(s, i) \in {"/", "="}
        /\ run >= 8 /\ run <= 35
        /\ CharAt(s, i + run + 1) \in {"/", "&", "?", "#", ""}
     THEN SubSeq(s, i + 1, i + run) ELSE ""

RECURSIVE generic(_, _)
generic(s, i) ==
  IF i > Len(s) THEN ""
  ELSE IF GenericAt(s, i) # "" THEN GenericAt(s, i)
  ELSE generic(s, i + 1)

\* /^https?:\/\//i.test(s)
HasScheme(s) ==
  \/ KeywordAt(s, 1, "http://")
  \/ KeywordAt(s, 1, "https://")

\* extractTrackingNumber(raw), for raw a string
extractTrackingNumber(raw) ==
  LET Extracted(s) ==
        IF ~HasScheme(s) /\ ~Includes(s, " ") THEN s
        ELSE IF KeywordMatch(s, 1, dhlKeywords) # "" THEN KeywordMatch(s, 1, dhlKeywords)
        ELSE IF KeywordMatch(s, 1, fedexKeywords) # "" THEN KeywordMatch(s, 1, fedexKeywords)
        ELSE IF KeywordMatch(s, 1, upsKeywords) # "" THEN KeywordMatch(s, 1, upsKeywords)
        ELSE IF generic(s, 1) # "" THEN generic(s, 1)
        ELSE s
  IN IF raw = "" THEN "" ELSE Extracted(Trim(raw))

normalizeCustomerTracking_Always(current, columns) == extractTrackingNumber(current)

\* normalizeCustomerTracking(itemDetails, boardConfig): the value it writes to
\* the customer-tracking column, "" when it writes nothing; current is the text
\* of the column in the item as fetched
normalizeCustomerTracking(current, columns) ==
  LET Cleaned(cleaned) == IF cleaned = "" \/ cleaned = current THEN "" ELSE cleaned
  IN IF columns.customerTracking = "" THEN ""
     ELSE IF current = "" THEN ""
     ELSE Cleaned(extractTrackingNumber(current))

\* one call of change_simple_column_value: the text the column had, the value
\* sent, whether the board applied it, and the time of the delivery
Write(current, value, ok, t) == [from |-> current, value |-> value, ok |-> ok, at |-> t]

----------------------------------------------------------------------------
(* part_001: staleness tracker *)

StaleType == "showing stale tracking information"

\* the comparison with >= in place of >
IsStale_AtLeast(timeSinceFirstSeen) == timeSinceFirstSeen >= staleThresholdMs

IsStale(timeSinceFirstSeen) == timeSinceFirstSeen > staleThresholdMs

StaleIssue(updateText, timeSinceFirstSeen) ==
  [type |-> StaleType,
   severity |-> "medium",
   reason |-> "Same update \"" \o updateText \o "\" for "
                \o ToString(RoundHours(timeSinceFirstSeen)) \o " hours",
   isStaleUpdate |-> TRUE,
   hoursStale |-> RoundHours(timeSinceFirstSeen)]

\* a first record that does not count its call
FirstRecord_Uncounted(updateText, t) ==
  [lastUpdateText |-> updateText, firstSeenAt |-> t, lastSeenAt |-> t, updateCount |-> 0]

\* updateHistory.set(historyKey, {...}) of the first call for an item
FirstRecord(updateText, t) ==
  [lastUpdateText |-> updateText, firstSeenAt |-> t, lastSeenAt |-> t, updateCount |-> 1]

\* a repeat that starts the count of the hours again
SameTextRecord_Restart(history, t) ==
  [history EXCEPT !.firstSeenAt = t, !.lastSeenAt = t, !.updateCount = @ + 1]

SameTextRecord(history, t) ==
  [history EXCEPT !.lastSeenAt = t, !.updateCount = @ + 1]

\* a reset that leaves firstSeenAt as it was
ResetRecord_KeepFirstSeen(history, updateText, t) ==
  [history EXCEPT !.lastUpdateText = updateText, !.lastSeenAt = t, !.updateCount = 1]

ResetRecord(history, updateText, t) ==
  [history EXCEPT !.lastUpdateText = updateText, !.firstSeenAt = t,
                  !.lastSeenAt = t, !.updateCount = 1]

\* one record for all items
HistoryKey_Shared(itemId) == "101"

\* const historyKey = `${itemId}`
HistoryKey(itemId) == itemId

\* checkForStaleUpdate(itemId, updateText) at time t on table uh:
\* the table it leaves and the issue (or Null) it returns
CheckForStaleUpdate(uh, itemId, updateText, t) ==
  LET historyKey == HistoryKey(itemId) IN
  IF uh[historyKey] = Null
  THEN [table |-> [uh EXCEPT ![historyKey] = FirstRecord(updateText, t)], issue |-> Null]
  ELSE LET history == uh[historyKey]
           timeSinceFirstSeen == t - history.firstSeenAt
       IN IF history.lastUpdateText = updateText
          THEN [table |-> [uh EXCEPT ![historyKey] = SameTextRecord(history, t)],
                issue |-> IF IsStale(timeSinceFirstSeen)
                          THEN StaleIssue(updateText, timeSinceFirstSeen)
                          ELSE Null]
          ELSE [table |-> [uh EXCEPT ![historyKey] = ResetRecord(history, updateText, t)],
                issue |-> Null]

----------------------------------------------------------------------------
(* part_001: duplicate suppressor *)

AlertKey(itemId, updateText, issueType) ==
  itemId \o "-" \o updateText \o "-" \o issueType

\* a sweep that removes nothing
Expired_Never(timestamp, t) == FALSE

\* a window of five hours in place of five minutes
Expired_Hours(timestamp, t) == timestamp < t - (5 * 60 * 60 * 1000)

Expired(timestamp, t) == timestamp < t - (5 * 60 * 1000)

\* a sweep that keeps every entry
Sweep_Keep(ra, t) == ra

\* for (const [key, timestamp] of recentAlerts.entries()): the entries older than
\* five minutes are deleted
Sweep(ra, t) == [k \in {k \in DOMAIN ra : ~Expired(ra[k], t)} |-> ra[k]]

\* a suppressed call that restarts the window of its key
IsDuplicateAlert_Refresh(ra, itemId, updateText, issueType, t) ==
  [table |-> (AlertKey(itemId, updateText, issueType) :> t) @@ Sweep(ra, t),
   dup |-> AlertKey(itemId, updateText, issueType) \in DOMAIN Sweep(ra, t)]

IsDuplicateAlert_ReadOnly(ra, itemId, updateText, issueType, t) ==
  [table |-> Sweep(ra, t),
   dup |-> AlertKey(itemId, updateText, issueType) \in DOMAIN Sweep(ra, t)]

\* isDuplicateAlert(itemId, updateText, issueType) at time t on table ra
IsDuplicateAlert(ra, itemId, updateText, issueType, t) ==
  LET alertKey == AlertKey(itemId, updateText, issueType)
      swept == Sweep(ra, t)
  IN IF alertKey \in DOMAIN swept
     THEN [table |-> swept, dup |-> TRUE]
     ELSE [table |-> (alertKey :> t) @@ swept, dup |-> FALSE]

----------------------------------------------------------------------------
(* index.js and part_002: ambiguous-status tracker *)

\* Object.entries(AMBIGUOUS_STATUSES), in insertion order
AMBIGUOUS_STATUSES_index ==
  << [status |-> "clearance event", hours |-> 18],
     [status |-> "customs clearance", hours |-> 18],
     [status |-> "processing", hours |-> 24],
     [status |-> "exception", hours |-> 12],
     [status |-> "clearance processing", hours |-> 18] >>

AMBIGUOUS_STATUSES_part002 ==
  << [status |-> "clearance event", hours |-> 18],
     [status |-> "customs clearance", hours |-> 18],
     [status |-> "processing", hours |-> 24],
     [status |-> "on hold", hours |-> 6],
     [status |-> "exception", hours |-> 12],
     [status |-> "clearance processing", hours |-> 18] >>

AMBIGUOUS_STATUSES(v) ==
  IF v = "index" THEN AMBIGUOUS_STATUSES_index ELSE AMBIGUOUS_STATUSES_part002

AmbiguousType == "experiencing delayed customs processing"

\* the loop over the table: the index of the first entry whose status the text
\* includes, 0 when there is none
FirstAmbiguous(table, lowerText) ==
  LET hits == {i \in 1..Len(table) : Includes(lowerText, table[i].status)}
  IN IF hits = {} THEN 0 ELSE CHOOSE i \in hits : \A j \in hits : i <= j

TimedOut(timeSinceFirstSeen, timeoutMs) == timeSinceFirstSeen >= timeoutMs

\* the timeout the elapsed time is compared with: that of the entry matched in
\* this call (history is the record of the item)
TimeoutMs(matched, history) == matched.hours * 60 * 60 * 1000

AmbiguousIssue(ambiguousStatus, timeSinceFirstSeen) ==
  [type |-> AmbiguousType,
   severity |-> "high",
   reason |-> "Status \"" \o ambiguousStatus \o "\" persisted for "
                \o ToString(RoundHours(timeSinceFirstSeen)) \o " hours",
   isAmbiguousTimeout |-> TRUE,
   hoursStuck |-> RoundHours(timeSinceFirstSeen)]

\* a record that stores the lower-cased text
AmbiguousRecord_LowerText(matched, updateText, t) ==
  [status |-> matched.status, updateText |-> ToLowerCase(updateText), firstSeenAt |-> t,
   timeoutHours |-> matched.hours]

AmbiguousRecord(matched, updateText, t) ==
  [status |-> matched.status, updateText |-> updateText, firstSeenAt |-> t,
   timeoutHours |-> matched.hours]

\* a delete that removes nothing
DeleteRecord_Keep(ash, itemId) == ash

\* ambiguousStatusHistory.delete(itemId)
DeleteRecord(ash, itemId) == [ash EXCEPT ![itemId] = Null]

\* checkAmbiguousStatus(itemId, updateText) at time t on table ash, with the
\* status table of the variant: the table it leaves and the issue (or Null)
CheckAmbiguousStatus(table, ash, itemId, updateText, t) ==
  LET lowerText == ToLowerCase(updateText)
      m == FirstAmbiguous(table, lowerText)
      deleted == DeleteRecord(ash, itemId)
  IN IF m = 0 THEN [table |-> deleted, issue |-> Null]
     ELSE IF ash[itemId] = Null
     THEN [table |-> [ash EXCEPT ![itemId] = AmbiguousRecord(table[m], updateText, t)],
           issue |-> Null]
     ELSE LET history == ash[itemId]
              timeSinceFirstSeen == t - history.firstSeenAt
          IN IF ~Includes(lowerText, history.status)
             THEN [table |-> deleted, issue |-> Null]
             ELSE IF TimedOut(timeSinceFirstSeen, TimeoutMs(table[m], history))
             THEN [table |-> deleted,
                   issue |-> AmbiguousIssue(table[m].status, timeSinceFirstSeen)]
             ELSE [table |-> ash, issue |-> Null]

----------------------------------------------------------------------------
(* index.js and part_002: rule classifier and customer-notification patterns *)

DetectCarrier(updateText) ==
  IF updateText = "" THEN "unknown"
  ELSE LET text == ToLowerCase(updateText)
       IN IF Includes(text, "ups") THEN "UPS"
          ELSE IF Includes(text, "dhl") THEN "DHL"
          ELSE IF Includes(text, "fedex") THEN "FedEx"
          ELSE "unknown"

IncludesAny(text, parts) == \E part \in parts : Includes(text, part)

CustomsPhrases(v) ==
  IF v = "index"
  THEN {"held by customs", "hold in customs", "document required", "on hold"}
  ELSE {"held by customs", "document required", "on hold"}

FailurePhrases == {"delivery attempted", "recipient unavailable", "premises closed"}

\* pattern.test(text) for the patterns of ISSUE_PATTERNS
Test(name, text) ==
  IF name = "delivered"
  THEN \E part \in ISSUE_PATTERNS.delivered : WordScan(text, part)
  ELSE IF name \in {"hubIssues", "ukEuDelivery"}
  THEN \E first \in ISSUE_PATTERNS[name].first, then \in ISSUE_PATTERNS[name].then :
         ScanThen(text, first, then)
  ELSE \E part \in ISSUE_PATTERNS[name] : Includes(text, part)

\* detectCarrier(updateText) of part_001
DetectCarrier_part001(updateText) ==
  IF updateText = "" THEN "unknown"
  ELSE LET text == ToLowerCase(updateText)
       IN IF Includes(text, "ups") \/ Includes(text, "united parcel") THEN "UPS"
          ELSE IF Includes(text, "dhl") THEN "DHL"
          ELSE IF Includes(text, "fedex") \/ Includes(text, "federal express") THEN "FedEx"
          ELSE "unknown"

TestByCarrier_AnyCarrier(carrier, text, ups, dhl, fedex) ==
  Test(ups, text) \/ Test(dhl, text) \/ Test(fedex, text)

\* carrier === c && ISSUE_PATTERNS[ups].test(text), and so for DHL and FedEx
TestByCarrier(carrier, text, ups, dhl, fedex) ==
  \/ carrier = "UPS" /\ Test(ups, text)
  \/ carrier = "DHL" /\ Test(dhl, text)
  \/ carrier = "FedEx" /\ Test(fedex, text)

BasicIssue(type, severity, reason, carrier) ==
  [type |-> type, severity |-> severity, reason |-> reason, carrier |-> carrier]

\* detectIssueBasic after its test of the delivered pattern: the carrier's normal
\* and customs patterns, then the patterns of every carrier
MatchIssuePatterns(text, carrier) ==
       IF TestByCarrier(carrier, text, "upsNormalIndia", "dhlNormalChina",
                             "fedexNormalChina") THEN Null
       ELSE IF TestByCarrier(carrier, text, "upsCustomsResolvedIndia",
                             "dhlCustomsResolvedChina", "fedexCustomsResolvedChina") THEN Null
       ELSE IF TestByCarrier(carrier, text, "upsCustomsIndia", "dhlCustomsChina",
                             "fedexCustomsChina")
       THEN BasicIssue("held in customs", "high",
                       carrier \o " customs clearance issue detected", carrier)
       ELSE IF Test("deliveryFailed", text)
       THEN BasicIssue("experiencing delivery failure", "high", "Failed delivery attempt",
                       carrier)
       ELSE IF Test("ukEuDelivery", text)
       THEN BasicIssue("experiencing final mile delivery issue", "high",
                       "UK/EU domestic delivery partner issue", carrier)
       ELSE IF Test("hubIssues", text)
       THEN BasicIssue("experiencing processing delay at hub", "medium",
                       "Delay at major processing hub", carrier)
       ELSE IF Test("transitIssues", text)
       THEN BasicIssue("experiencing transit delay", "medium",
                       "International transit delay", carrier)
       ELSE IF Test("damageOrLoss", text)
       THEN BasicIssue("experiencing damage or loss issue", "high",
                       "Potential damage or loss detected", carrier)
       ELSE IF Test("brexitEu", text)
       THEN BasicIssue("experiencing EU customs complexity", "medium",
                       "Brexit/EU customs documentation issue", carrier)
       ELSE Null

DetectIssueBasic_DeliveredLast(updateText) ==
  IF updateText = "" THEN Null
  ELSE MatchIssuePatterns(ToLowerCase(updateText),
                          DetectCarrier_part001(ToLowerCase(updateText)))

\* detectIssueBasic(updateText)
DetectIssueBasic(updateText) ==
  IF updateText = "" THEN Null
  ELSE
    LET text == ToLowerCase(updateText)
        carrier == DetectCarrier_part001(text)
    IN IF Test("delivered", text) THEN Null
       ELSE MatchIssuePatterns(text, carrier)

\* What generateContent and the parse of its reply come to:
\*   kind "throw"    the call (or reading its text) throws
\*   kind "garbage"  the reply is not JSON
\*   kind "null"     the reply is the JSON value null
\*   kind "scalar"   the reply is JSON but no object (true, 42, "ok", [])
\*   kind "object"   the reply holds a JSON object, with the fields below
\* hasIssue and isResolved are "true", "false" or "missing"; the other fields are
\* strings, "" for a field that is missing or null.
NoReply ==
  [kind |-> "none", hasIssue |-> "missing", isResolved |-> "missing", issueType |-> "",
   severity |-> "", reason |-> "", currentLocation |-> "", carrier |-> "", route |-> ""]

Reply(kind) == [NoReply EXCEPT !.kind = kind]

ObjectReply(hasIssue, isResolved, issueType, severity, reason, currentLocation, carrier) ==
  [kind |-> "object", hasIssue |-> hasIssue, isResolved |-> isResolved,
   issueType |-> issueType, severity |-> severity, reason |-> reason,
   currentLocation |-> currentLocation, carrier |-> carrier, route |-> ""]

\* the chain of conditionals on analysis.issueType
IssueTypeOf(issueType) ==
  CASE issueType = "customs_held" -> "held in customs"
    [] issueType = "delivery_failed" -> "experiencing delivery failure"
    [] issueType = "transit_delay" -> "experiencing transit delay"
    [] issueType = "hub_delay" -> "experiencing processing delay at hub"
    [] issueType = "final_mile_issue" -> "experiencing final mile delivery issue"
    [] issueType = "damage_loss" -> "experiencing damage or loss issue"
    [] issueType = "eu_customs_complex" -> "experiencing EU customs complexity"
    [] issueType = "tracking_stale" -> "showing stale tracking information"
    [] OTHER -> "experiencing a delay"

\* x || "unknown"
OrUnknown(x) == IF x = "" THEN "unknown" ELSE x

\* the object analyzeWithGemini builds from a parsed reply
GeminiIssue(analysis) ==
  [type |-> IssueTypeOf(analysis.issueType),
   severity |-> analysis.severity,
   reason |-> analysis.reason,
   extractedLocation |-> analysis.currentLocation,
   carrier |-> OrUnknown(analysis.carrier),
   route |-> OrUnknown(analysis.route)]

\* how a block of statements ends: it returns a value or it throws
Returns(value) == [threw |-> FALSE, value |-> value]
Throws == [threw |-> TRUE, value |-> Null]

Catch_Rethrow(attempt, handler) == attempt

\* try { attempt } catch { handler }
Catch(attempt, handler) == IF attempt.threw THEN handler ELSE attempt

\* await model.generateContent(prompt); result.response; response.text()
GenerateContent(reply) == IF reply.kind = "throw" THEN Throws ELSE Returns(reply)

\* JSON.parse of the braces of the reply, or of the whole reply
ParseAnalysis(reply) == IF reply.kind = "garbage" THEN Throws ELSE Returns(reply)

\* the statements after the parse: reading a property of null throws
ReadAnalysis(analysis) ==
  IF analysis.kind = "null" THEN Throws
  ELSE IF analysis.hasIssue # "true" \/ analysis.isResolved = "true" THEN Returns(Null)
  ELSE Returns(GeminiIssue(analysis))

\* analyzeWithGemini(updateText, ...) as a block: genAI is configured or not and
\* the service call comes to reply
AnalyzeWithGeminiRun(configured, updateText, reply) ==
  IF ~configured THEN Returns(DetectIssueBasic(updateText))
  ELSE
    LET response == GenerateContent(reply)
        parsed == ParseAnalysis(reply)
        body == IF response.threw THEN Throws
                ELSE IF parsed.threw
                THEN Catch(parsed, Returns(DetectIssueBasic(updateText)))
                ELSE ReadAnalysis(parsed.value)
    IN Catch(body, Returns(DetectIssueBasic(updateText)))

\* what analyzeWithGemini returns
AnalyzeWithGemini(configured, updateText, reply) ==
  AnalyzeWithGeminiRun(configured, updateText, reply).value

\* analyzeIssue(updateText) of variant v
AnalyzeIssue(v, updateText) ==
  LET text == ToLowerCase(updateText)
      carrier == DetectCarrier(updateText)
  IN IF Includes(text, "delivered") THEN Null
     ELSE IF IncludesAny(text, CustomsPhrases(v))
     THEN [type |-> "held in customs", severity |-> "high",
           reason |-> "Customs issue detected", carrier |-> carrier]
     ELSE IF IncludesAny(text, FailurePhrases)
     THEN [type |-> "experiencing delivery failure", severity |-> "high",
           reason |-> "Failed delivery attempt", carrier |-> carrier]
     ELSE Null

\* shouldNotifyCustomer(updateText): the reason of the first pattern that
\* matches, "" when none does
ShouldNotifyCustomer(updateText) ==
  LET text == ToLowerCase(updateText)
      hits == {i \in 1..Len(CUSTOMER_NOTIFICATION_PATTERNS) :
                 IncludesAny(text, CUSTOMER_NOTIFICATION_PATTERNS[i].phrases)}
  IN IF hits = {} THEN ""
     ELSE CUSTOMER_NOTIFICATION_PATTERNS[CHOOSE i \in hits : \A j \in hits : i <= j].reason

----------------------------------------------------------------------------
(* part_001: extractLocationFromUpdate.  The texts of the model are single    *)
(* lines whose only white space is the blank.                                 *)

\* LOCATION_CODES[countryCode] || countryCode, for the two-letter keys (the only
\* keys a two-letter country code can equal)
LOCATION_CODES(countryCode) ==
  CASE countryCode = "IN" -> "India" [] countryCode = "CN" -> "China"
    [] countryCode \in {"UK", "GB"} -> "United Kingdom"
    [] countryCode = "DE" -> "Germany" [] countryCode = "FR" -> "France"
    [] countryCode = "IT" -> "Italy" [] countryCode = "ES" -> "Spain"
    [] countryCode = "NL" -> "Netherlands" [] countryCode = "BE" -> "Belgium"
    [] countryCode = "AT" -> "Austria" [] countryCode = "SE" -> "Sweden"
    [] countryCode = "DK" -> "Denmark" [] countryCode = "FI" -> "Finland"
    [] countryCode = "NO" -> "Norway" [] countryCode = "CH" -> "Switzerland"
    [] countryCode = "PL" -> "Poland" [] countryCode = "CZ" -> "Czech Republic"
    [] countryCode = "HU" -> "Hungary" [] countryCode = "RO" -> "Romania"
    [] countryCode = "BG" -> "Bulgaria" [] countryCode = "GR" -> "Greece"
    [] countryCode = "PT" -> "Portugal" [] countryCode = "IE" -> "Ireland"
    [] countryCode = "LU" -> "Luxembourg" [] countryCode = "SK" -> "Slovakia"
    [] countryCode = "SI" -> "Slovenia" [] countryCode = "EE" -> "Estonia"
    [] countryCode = "LV" -> "Latvia" [] countryCode = "LT" -> "Lithuania"
    [] countryCode = "MT" -> "Malta" [] countryCode = "CY" -> "Cyprus"
    [] countryCode = "HR" -> "Croatia" [] countryCode = "HK" -> "Hong Kong"
    [] OTHER -> countryCode

\* the character at position i, "" outside the text
At(text, i) == IF i >= 1 /\ i <= Len(text) THEN SubSeq(text, i, i) ELSE ""

\* [A-Z]
Upper(c) ==
  c \in {"A", "B", "C", "D", "E", "F", "G", "H", "I", "J", "K", "L", "M", "N", "O", "P",
         "Q", "R", "S", "T", "U", "V", "W", "X", "Y", "Z"}

\* \s
IsSpace(c) == c = " "

RECURSIVE RunEnd(_, _)
\* the last position of the longest run of [A-Z\s] that begins at i (i - 1 when
\* there is none)
RunEnd(text, i) ==
  IF Upper(At(text, i)) \/ IsSpace(At(text, i)) THEN RunEnd(text, i + 1) ELSE i - 1

RECURSIVE SkipSpaces(_, _)
\* the first position from k on that holds no white space
SkipSpaces(text, k) == IF IsSpace(At(text, k)) THEN SkipSpaces(text, k + 1) ELSE k

\* the match of locationPatterns[n] that begins at position i, or Null:
\*   1  /([A-Z][A-Z\s]+)\s*-\s*([A-Z]{2})/     2  /([A-Z][A-Z\s]+)-([A-Z]{2})/
\*   3  /(?:at|in)\s+([A-Z][A-Z\s]+)/          4  /(?:in|from|to)\s+([A-Z]{2})(?:\s|$)/
\* The group [A-Z][A-Z\s]+ is greedy and the character after a run of [A-Z\s]
\* is outside the class, so the hyphen of 1 and 2 stands right after the run.
MatchAt(n, text, i) ==
  IF n \in {1, 2}
  THEN LET r == RunEnd(text, i)
           k == IF n = 1 THEN SkipSpaces(text, r + 2) ELSE r + 2
       IN IF /\ Upper(At(text, i))
             /\ r >= i + 1
             /\ At(text, r + 1) = "-"
             /\ Upper(At(text, k))
             /\ Upper(At(text, k + 1))
          THEN [group1 |-> SubSeq(text, i, r), group2 |-> SubSeq(text, k, k + 1),
                end |-> k + 1]
          ELSE Null
  ELSE LET prefixes == IF n = 3 THEN {"at", "in"} ELSE {"in", "from", "to"}
           hits == {pre \in prefixes : /\ i + Len(pre) - 1 <= Len(text)
                                         /\ SubSeq(text, i, i + Len(pre) - 1) = pre}
       IN IF hits = {} THEN Null
          ELSE LET pre == CHOOSE h \in hits : TRUE
                   k == SkipSpaces(text, i + Len(pre))
                   r == RunEnd(text, k)
               IN IF ~IsSpace(At(text, i + Len(pre))) \/ ~Upper(At(text, k)) THEN Null
                  ELSE IF n = 3
                  THEN IF r >= k + 1
                       THEN [group1 |-> SubSeq(text, k, r), group2 |-> "", end |-> r]
                       ELSE Null
                  ELSE IF Upper(At(text, k + 1))
                          /\ (k + 2 > Len(text) \/ IsSpace(At(text, k + 2)))
                       THEN [group1 |-> SubSeq(text, k, k + 1), group2 |-> "",
                             end |-> IF k + 2 > Len(text) THEN k + 1 ELSE k + 2]
                       ELSE Null

RECURSIVE LastMatch(_, _, _, _)
\* [...updateText.matchAll(pattern)]: the last of the successive matches found
\* from position i on, best when there is none
LastMatch(n, text, i, best) ==
  IF i > Len(text) THEN best
  ELSE LET m == MatchAt(n, text, i)
       IN IF m = Null THEN LastMatch(n, text, i + 1, best)
          ELSE LastMatch(n, text, m.end + 1, m)

\* the location a match gives
MatchLocation(match) ==
  IF match.group2 # ""
  THEN Trim(match.group1) \o " - " \o LOCATION_CODES(Trim(match.group2))
  ELSE Trim(match.group1)

RECURSIVE ExtractFrom(_, _)
\* the loop over locationPatterns from pattern n on
ExtractFrom(n, updateText) ==
  IF n > 4 THEN ""
  ELSE LET match == LastMatch(n, updateText, 1, Null)
       IN IF match = Null THEN ExtractFrom(n + 1, updateText)
          ELSE MatchLocation(match)

\* extractLocationFromUpdate(updateText), "" for null
ExtractLocationFromUpdate(updateText) ==
  IF updateText = "" THEN "" ELSE ExtractFrom(1, updateText)

----------------------------------------------------------------------------
(* index.js and part_002: the coordinator an alert is addressed to *)

UpperChar(c) ==
  CASE c = "a" -> "A" [] c = "b" -> "B" [] c = "c" -> "C" [] c = "d" -> "D"
    [] c = "e" -> "E" [] c = "f" -> "F" [] c = "g" -> "G" [] c = "h" -> "H"
    [] c = "i" -> "I" [] c = "j" -> "J" [] c = "k" -> "K" [] c = "l" -> "L"
    [] c = "m" -> "M" [] c = "n" -> "N" [] c = "o" -> "O" [] c = "p" -> "P"
    [] c = "q" -> "Q" [] c = "r" -> "R" [] c = "s" -> "S" [] c = "t" -> "T"
    [] c = "u" -> "U" [] c = "v" -> "V" [] c = "w" -> "W" [] c = "x" -> "X"
    [] c = "y" -> "Y" [] c = "z" -> "Z" [] OTHER -> c

RECURSIVE ToUpperCase(_)
\* s.toUpperCase()
ToUpperCase(s) ==
  IF Len(s) = 0 THEN s
  ELSE UpperChar(SubSeq(s, 1, 1)) \o ToUpperCase(SubSeq(s, 2, Len(s)))

\* columnMap[id], "" for a column the item does not have
Column(columnMap, id) == IF id \in DOMAIN columnMap THEN columnMap[id] ELSE ""

\* getLogisticsCoordinator(boardConfig, itemDetails) of index.js, "" for null
GetLogisticsCoordinator(boardConfig, columnMap) ==
  IF boardConfig.region = "MIXED"
  THEN LET region == Column(columnMap, boardConfig.columns.region)
           upperRegion == ToUpperCase(region)
       IN IF region = "" THEN ""
          ELSE IF Scan(upperRegion, "INDIA") \/ Scan(upperRegion, "IN")
          THEN Mention(HARITHA_USER_ID)
          ELSE IF Scan(upperRegion, "CHINA") \/ Scan(upperRegion, "CN")
          THEN Mention(RACHEL_USER_ID)
          ELSE IF Scan(upperRegion, "PORTUGAL") \/ Scan(upperRegion, "PT")
          THEN ""
          ELSE ""
  ELSE boardConfig.coordinator

\* getLogisticsCoordinator(itemDetails, carrier) of part_002
GetLogisticsCoordinator_part002(columnMap, carrier) ==
  LET region == Column(columnMap, "status77")
      upperRegion == ToUpperCase(region)
  IN IF region # "" /\ (Scan(upperRegion, "INDIA") \/ Scan(upperRegion, "IN"))
     THEN Mention(HARITHA_USER_ID)
     ELSE IF region # "" /\ (Scan(upperRegion, "CHINA") \/ Scan(upperRegion, "CN"))
     THEN Mention(RACHEL_USER_ID)
     ELSE IF carrier = "UPS" THEN Mention(HARITHA_USER_ID)
     ELSE Mention(RACHEL_USER_ID)

\* `${poNumber} is ${issue.type} from ${location}. Please review.`
MainMessage(poNumber, issue, location) ==
  poNumber \o " is " \o issue.type \o " from " \o location \o ". Please review."

\* createSlackMessage of index.js: the coordinator it addresses ("" for none) and
\* the text of the message
CreateSlackMessage(issue, poNumber, columnMap, boardConfig, location) ==
  LET coordinator == GetLogisticsCoordinator(boardConfig, columnMap)
  IN [coordinator |-> coordinator,
      text |-> IF coordinator # ""
               THEN coordinator \o " " \o MainMessage(poNumber, issue, location)
               ELSE "**" \o boardConfig.name \o "**: "
                      \o MainMessage(poNumber, issue, location)]

\* createSlackMessage of part_002
CreateSlackMessage_part002(issue, poNumber, columnMap, location) ==
  LET coordinator == GetLogisticsCoordinator_part002(columnMap, issue.carrier)
  IN [coordinator |-> coordinator,
      text |-> coordinator \o " " \o MainMessage(poNumber, issue, location)]

----------------------------------------------------------------------------
(* Observation of one webhook delivery *)

\* no such time: every time of the model is >= 0
NoTime == 0 - 1

LastTime(f, k) == IF k \in DOMAIN f THEN f[k] ELSE NoTime

\* what the delivery handled at time t did: the branch it ended in (outcome), the
\* item and text it read, whether the board fetch returned the item, which
\* trackers ran, the records they found and the issues they returned, whether the
\* classifier ran and its issue, the suppressor calls, the chat posts, the contact
\* lookups and the e-mails attempted, and the status of the response; the row the
\* board returned, the location and the coordinator of the alert, and what the
\* contact search came to
\* req.body.challenge of monday's subscription handshake
Token == "3eZbrw1aBm2rZgRNFdxV2595E9CY3gmdALWMmHkvFXO7tYXAYM8P"

\* a field of the event, "" where the event has none
EventField(ev, name) == IF name \in DOMAIN ev THEN ev[name] ELSE ""

\* what the handler reads of req.body before it calls anything: the challenge
\* ("": none, or a falsy one), whether there is an event, the column that
\* changed, the board and whether the event names an item
Request(ev) ==
  [challenge |-> ev.challenge, hasEvent |-> ev.hasEvent,
   columnId |-> EventField(ev, "columnId"), boardId |-> EventField(ev, "boardId"),
   hasItem |-> ev.pulseId # ""]

NoRequest ==
  [challenge |-> "", hasEvent |-> FALSE, columnId |-> "", boardId |-> "",
   hasItem |-> FALSE]

\* res.status(status).end()
End(status) == [status |-> status, body |-> Null]

\* res.json(body): the status is the 200 a response starts with
Json(body) == [status |-> 200, body |-> body]

\* every path but the handshake ends with res.status(200).end(); responses are
\* the responses sent, status the status of the last one
Obs(outcome, t, itemId, updateText) ==
  [outcome |-> outcome, at |-> t, item |-> itemId, text |-> updateText,
   fetched |-> FALSE, row |-> Null, location |-> "", coordinator |-> "", contact |-> "",
   staleCalled |-> FALSE, staleBefore |-> Null, staleIssue |-> Null,
   ambCalled |-> FALSE, ambBefore |-> Null, ambAfter |-> Null, ambIssue |-> Null,
   stuckIssue |-> Null, classified |-> FALSE, isStaleUpdate |-> FALSE, issue |-> Null,
   dups |-> <<>>, posts |-> <<>>, lookups |-> 0, emails |-> <<>>,
   responses |-> <<End(200)>>, status |-> End(200).status, request |-> NoRequest]

Caught_ServerError(obs) ==
  [obs EXCEPT !.responses = <<End(500)>>, !.status = End(500).status]

\* the handler's catch after a TypeError: the response is sent
Caught(obs) == [obs EXCEPT !.responses = <<End(200)>>, !.status = End(200).status]

\* whether updateText.toLowerCase() is a function
IsText(updateText) == updateText # NumberValue

Challenge_Acknowledged(ev, t) == Obs("challenge", t, "", "")

\* return res.json({ challenge: req.body.challenge })
Challenge(ev, t) ==
  [Obs("challenge", t, "", "") EXCEPT
     !.responses = <<Json([challenge |-> ev.challenge])>>,
     !.status = Json([challenge |-> ev.challenge]).status]

DupCall(key, dup) == [key |-> key, dup |-> dup, prevPass |-> LastTime(passAt, key)]

Post(kind, key, ok) ==
  [kind |-> kind, key |-> key, ok |-> ok, prevPost |-> LastTime(postAt, key)]

RECURSIVE Stamp(_, _, _)
\* f with every key of the sequence ks set to time t
Stamp(f, ks, t) ==
  IF ks = <<>> THEN f ELSE Stamp((Head(ks) :> t) @@ f, Tail(ks), t)

RECURSIVE PassedKeys(_)
PassedKeys(dups) ==
  IF dups = <<>> THEN <<>>
  ELSE (IF Head(dups).dup THEN <<>> ELSE <<Head(dups).key>>) \o PassedKeys(Tail(dups))

RECURSIVE PostedKeys(_)
PostedKeys(posts) ==
  IF posts = <<>> THEN <<>>
  ELSE (IF Head(posts).ok THEN <<Head(posts).key>> ELSE <<>>) \o PostedKeys(Tail(posts))

\* per item, what the trackers were fed: the text of the previous tracker call,
\* when the present run of equal texts began, how many calls it has, how many
\* staleness alerts were dispatched in it, and hoursStale of the latest staleness
\* issue returned in it (NoTime: none)
NoTrace ==
  [text |-> "", runStart |-> NoTime, calls |-> 0, staleAlerts |-> 0, staleHours |-> NoTime]

Fed(tr, updateText, t, staleAlert, hours) ==
  IF tr.calls > 0 /\ tr.text = updateText
  THEN [tr EXCEPT !.calls = @ + 1, !.staleAlerts = @ + (IF staleAlert THEN 1 ELSE 0),
                  !.staleHours = IF hours # NoTime THEN hours ELSE @]
  ELSE [text |-> updateText, runStart |-> t, calls |-> 1,
        staleAlerts |-> IF staleAlert THEN 1 ELSE 0, staleHours |-> hours]

\* the delivery handled at time t is over: the clock and the observations
Record(obs, t) ==
  /\ now' = t
  /\ last' = obs
  /\ passAt' = Stamp(passAt, PassedKeys(obs.dups), t)
  /\ postAt' = Stamp(postAt, PostedKeys(obs.posts), t)
  /\ trace' = IF obs.staleCalled \/ obs.ambCalled
              THEN [trace EXCEPT ![obs.item] =
                      Fed(@, obs.text, t, obs.outcome = "stale-alert",
                          IF obs.staleIssue # Null THEN obs.staleIssue.hoursStale
                          ELSE NoTime)]
              ELSE trace
  /\ events' = events + 1
  /\ UNCHANGED <<input, output, handlers>>

\* the outcome of a collaborator call is drawn only when the handler makes the call
Outcomes(asked, set, default) == IF asked THEN set ELSE {default}

----------------------------------------------------------------------------
(* part_001: POST /monday-webhook *)


\* item.column_values of the item, in the order of the response: the latest
\* location and the region
ColumnValuesP1(row) == << <<"latest_location", row.location>>, <<"region", row.region>> >>

\* columnMap[id] of the columnMap built from column_values, "" when absent
ColumnText(columnValues, id) ==
  LET hits == {i \in DOMAIN columnValues : columnValues[i][1] = id}
  IN IF hits = {} THEN "" ELSE columnValues[CHOOSE i \in hits : \A j \in hits : j <= i][2]

\* locationSources of getLocationFromColumns
LocationSources ==
  << <<"latest_location", "latest_loc">>, <<"current_location", "current_loc">>,
     <<"location">>, <<"hub">>, <<"qc_hub">>, <<"region">> >>

\* the first pattern of the source whose column has a text, 0 when none
ExactMatch(columnValues, patterns) ==
  LET hits == {k \in DOMAIN patterns : ColumnText(columnValues, patterns[k]) # ""}
  IN IF hits = {} THEN 0 ELSE CHOOSE k \in hits : \A j \in hits : k <= j

\* the first column with a text whose id includes a pattern of the source, 0 when none
PartialMatch(columnValues, patterns) ==
  LET hits == {i \in DOMAIN columnValues :
                 /\ columnValues[i][2] # ""
                 /\ \E k \in DOMAIN patterns :
                      Scan(LowerOf(columnValues[i][1]), LowerOf(patterns[k]))}
  IN IF hits = {} THEN 0 ELSE CHOOSE i \in hits : \A j \in hits : i <= j

RECURSIVE LocationFrom(_, _)
\* the loop over locationSources, from source n on
LocationFrom(n, columnValues) ==
  IF n > Len(LocationSources) THEN "Unknown Location"
  ELSE LET patterns == LocationSources[n]
           exact == ExactMatch(columnValues, patterns)
           partial == PartialMatch(columnValues, patterns)
       IN IF exact # 0 THEN ColumnText(columnValues, patterns[exact])
          ELSE IF partial # 0 THEN columnValues[partial][2]
          ELSE LocationFrom(n + 1, columnValues)

\* getLocationFromColumns(columnMap) of part_001
GetLocationFromColumns_part001(columnValues) == LocationFrom(1, columnValues)

\* issue.extractedLocation, "" when the issue has none
ExtractedLocation(issue) ==
  IF "extractedLocation" \in DOMAIN issue THEN issue.extractedLocation ELSE ""

\* the location of the alert: the column, then the classifier, then the text
ResolveLocation(mondayLocation, issue, updateText) ==
  LET Or(extracted, fromUpdate) ==
        IF mondayLocation # "Unknown Location" THEN mondayLocation
        ELSE IF extracted # "" THEN extracted
        ELSE IF fromUpdate # "" THEN fromUpdate
        ELSE "Unknown Location"
  IN Or(ExtractedLocation(issue), ExtractLocationFromUpdate(updateText))

\* request bodies: a handshake (with or without an event), an empty body, and
\* change events for an item
EventBodiesP1 ==
  [challenge : {""}, hasEvent : {TRUE}, columnId : {LatestColumn, OtherColumn},
   pulseId : scope.items, value : scope.texts]

EventsP1 ==
  EventBodiesP1
    \cup {[challenge |-> Token, hasEvent |-> h, columnId |-> LatestColumn,
            pulseId |-> "101", value |-> "In transit"] : h \in BOOLEAN}
    \cup {[challenge |-> "", hasEvent |-> FALSE, columnId |-> "", pulseId |-> "",
            value |-> ""]}

ColumnIgnored_Never(columnId) == FALSE

ColumnIgnored(columnId) ==
  config.LATEST_UPDATE_COLUMN_ID # "" /\ columnId # config.LATEST_UPDATE_COLUMN_ID

\* the handler at time t on event ev, with the outcomes of the collaborators it
\* awaits: fetch (the row of the item getItemDetails returns, or Null), reply
\* (what the classification service replies), slackOk (chat.postMessage did
\* not throw)
\* a post that threw is sent once more
PostMessage_Retry(kind, key, slackOk) ==
  IF slackOk THEN <<Post(kind, key, TRUE)>>
  ELSE <<Post(kind, key, FALSE), Post(kind, key, TRUE)>>

\* try { await slack.chat.postMessage(...) } catch (slackError) { console.error }:
\* the posts attempted, one that returned or one that threw
PostMessage(kind, key, slackOk) == <<Post(kind, key, slackOk)>>

\* a failed post takes the key out of recentAlerts again
PostCaught_Forget(ra, key, slackOk) ==
  IF slackOk THEN ra ELSE [k \in DOMAIN ra \ {key} |-> ra[k]]

\* the catch of the post leaves recentAlerts alone: the table after the post,
\* whether it returned or threw
PostCaught(ra, key, slackOk) == ra

StaleAlerted_AnyIssue(staleIssue, dup) == staleIssue # Null

\* if (staleIssue && !isDuplicateAlert(itemId, updateText, staleIssue.type))
StaleAlerted(staleIssue, dup) == staleIssue # Null /\ ~dup

HandleP1(ev, t, fetch, reply, slackOk) ==
  LET itemId == ev.pulseId
      updateText == ev.value
      keep(obs) ==
        [updateHistory |-> updateHistory, recentAlerts |-> recentAlerts, obs |-> obs]
      \* the handler from checkForStaleUpdate on: st is what it returns, d1 what
      \* isDuplicateAlert returns on the staleness issue; analyzeWithGemini is
      \* called with !!staleIssue as isStaleUpdate
      Fetched(st, d1, mondayLocation) ==
        LET staleKey == AlertKey(itemId, updateText, StaleType)
            dups1 == IF st.issue # Null THEN <<DupCall(staleKey, d1.dup)>> ELSE <<>>
            seen(outcome, classified, issue, ra, dups, posts, location) ==
              [updateHistory |-> st.table, recentAlerts |-> ra,
               obs |-> [Obs(outcome, t, itemId, updateText) EXCEPT
                          !.fetched = TRUE, !.row = fetch, !.staleCalled = TRUE,
                          !.staleBefore = updateHistory[itemId], !.staleIssue = st.issue,
                          !.classified = classified,
                          !.isStaleUpdate = classified /\ st.issue # Null,
                          !.issue = issue,
                          !.dups = dups, !.posts = posts, !.location = location]]
            \* the handler from the second isDuplicateAlert (d2) on
            Found(issue, d2) ==
              LET key == AlertKey(itemId, updateText, issue.type)
                  dups2 == dups1 \o <<DupCall(key, d2.dup)>>
              IN IF d2.dup THEN seen("duplicate", TRUE, issue, d2.table, dups2, <<>>, "")
                 ELSE seen("alert", TRUE, issue, PostCaught(d2.table, key, slackOk), dups2,
                           PostMessage("issue", key, slackOk),
                           ResolveLocation(mondayLocation, issue, updateText))
            \* the handler from the return of analyzeWithGemini (run) on
            Analyzed(run) ==
              IF run.threw THEN seen("error", TRUE, Null, d1.table, dups1, <<>>, "")
              ELSE IF run.value = Null
              THEN seen("no-issue", TRUE, Null, d1.table, dups1, <<>>, "")
              ELSE Found(run.value,
                         IsDuplicateAlert(d1.table, itemId, updateText, run.value.type, t))
        IN
        IF StaleAlerted(st.issue, d1.dup)
        THEN seen("stale-alert", FALSE, Null, PostCaught(d1.table, staleKey, slackOk), dups1,
                  PostMessage("stale", staleKey, slackOk), mondayLocation)
        ELSE Analyzed(AnalyzeWithGeminiRun(config.GEMINI_API_KEY, updateText, reply))
      Stale(st) ==
        Fetched(st,
                IF st.issue # Null
                THEN IsDuplicateAlert(recentAlerts, itemId, updateText, st.issue.type, t)
                ELSE [table |-> recentAlerts, dup |-> FALSE],
                GetLocationFromColumns_part001(ColumnValuesP1(fetch)))
  IN
  IF ev.challenge # "" THEN keep(Challenge(ev, t))
  ELSE IF ~ev.hasEvent THEN keep(Obs("no-event", t, "", ""))
  ELSE IF ColumnIgnored(ev.columnId) THEN keep(Obs("ignored", t, "", ""))
  ELSE IF config.ALWAYS_ALERT
  THEN keep([Obs("test", t, itemId, updateText) EXCEPT
               !.fetched = fetch # Null, !.row = fetch,
               !.posts = IF fetch # Null
                         THEN PostMessage("test", AlertKey(itemId, updateText, "test"), slackOk)
                         ELSE <<>>])
  ELSE IF fetch = Null THEN keep(Obs("fetch-failed", t, itemId, updateText))
  ELSE Stale(CheckForStaleUpdate(updateHistory, itemId, updateText, t))

\* whether the handler reaches getItemDetails on ev
FetchesP1(ev) == ev.challenge = "" /\ ev.hasEvent /\ ~ColumnIgnored(ev.columnId)

\* whether the handler reaches the call of the classification service; handle
\* is the handler as a function of the reply and of the outcome of the post
AsksP1(handle) == config.GEMINI_API_KEY /\ handle[NoReply, TRUE].obs.classified

MondayWebhookP1 ==
  /\ variant = "part_001"
  /\ events < MaxEvents
  /\ \E delay \in scope.delays, ev \in EventsP1 :
     \E fetch \in Outcomes(FetchesP1(ev), {Null} \cup scope.rows, Null) :
     LET handle == [reply \in scope.replies \cup {NoReply}, slackOk \in BOOLEAN |->
                      HandleP1(ev, now + delay, fetch, reply, slackOk)] IN
     \E reply \in Outcomes(AsksP1(handle), scope.replies, NoReply) :
     \E slackOk \in Outcomes(handle[reply, TRUE].obs.posts # <<>>, BOOLEAN, TRUE) :
     \E r \in {handle[reply, slackOk]} :
       /\ updateHistory' = r.updateHistory
       /\ recentAlerts' = r.recentAlerts
       /\ Record([r.obs EXCEPT !.request = Request(ev)], now + delay)
  /\ UNCHANGED <<variant, config, scope, ambiguousStatusHistory, customerTracking,
                 trackingWrites>>

----------------------------------------------------------------------------
(* index.js: POST /monday-webhook *)

\* BOARD_CONFIGS[boardId].columns, Null for a board without configuration
BoardColumns(boardId) ==
  IF boardId \in DOMAIN BOARD_CONFIGS THEN BOARD_CONFIGS[boardId].columns ELSE Null

\* itemDetails.columnMap of an item of the board: the item has no latest update
\* and no tracking value
ColumnMapIdx(row, columns) ==
  (columns.transitStatus :> row.status) @@ (columns.customerName :> row.customer)
    @@ (columns.latestLocation :> row.location) @@ (columns.region :> row.region)
    @@ (columns.latestUpdate :> "") @@ (columns.customerTracking :> "")

GetLatestUpdateFromColumns(columnMap, columns) ==
  Trim(Column(columnMap, columns.latestUpdate))

\* checkStuckStatus(itemDetails, boardConfig)
CheckStuckStatus(columnMap, columns) ==
  LET transitStatus == Column(columnMap, columns.transitStatus)
  IN IF transitStatus # "" /\ Includes(ToLowerCase(transitStatus), "stuck")
     THEN [type |-> "stuck in transit", severity |-> "high",
           reason |-> "Transit status marked as stuck", isStuckStatus |-> TRUE]
     ELSE Null

\* getLocationFromColumns(itemDetails, boardConfig)
GetLocationFromColumns(columnMap, columns) ==
  IF Column(columnMap, columns.latestLocation) # ""
  THEN Column(columnMap, columns.latestLocation)
  ELSE "Unknown Location"

\* issue.carrier = detectCarrier(updateText)
WithCarrier(issue, updateText) ==
  [f \in DOMAIN issue \cup {"carrier"} |->
     IF f = "carrier" THEN DetectCarrier(updateText) ELSE issue[f]]

\* request bodies: a handshake, an empty body, an event of a board without
\* configuration, and events of the boards of the scope for an item
EventBodiesIdx ==
  [challenge : {""}, hasEvent : {TRUE}, boardId : scope.boards,
   pulseId : scope.items, value : scope.texts]

EventsIdx ==
  EventBodiesIdx
    \cup {[challenge |-> Token, hasEvent |-> TRUE, boardId |-> MainBoard,
            pulseId |-> "101", value |-> ""],
          [challenge |-> "", hasEvent |-> FALSE, boardId |-> "", pulseId |-> "",
            value |-> ""],
          [challenge |-> "", hasEvent |-> TRUE, boardId |-> UnknownBoard,
            pulseId |-> "101", value |-> ""],
          [challenge |-> "", hasEvent |-> TRUE, boardId |-> "", pulseId |-> "101",
            value |-> ""],
          [challenge |-> "", hasEvent |-> TRUE, boardId |-> MainBoard, pulseId |-> "",
            value |-> ""]}

\* the customer e-mail of an alert: whether HubSpot is searched (the text asks
\* for a notification, the item names a customer, the key is configured),
\* what the search came to, and the sendMail calls made (a contact was found
\* and the transporter is configured)
EmailPath_AnyIssue(updateText, customer, contact, mailOk) ==
  LET looked == customer # "" /\ config.HUBSPOT_API_KEY
      mailed == looked /\ contact = "found" /\ config.GMAIL
  IN [lookups |-> IF looked THEN 1 ELSE 0,
      contact |-> IF looked THEN contact ELSE "",
      emails |-> IF mailed THEN <<[to |-> customer, ok |-> mailOk]>> ELSE <<>>,
      threw |-> FALSE]

EmailPath(updateText, customer, contact, mailOk) ==
  LET \* searchCustomerInHubSpot returned (search), sendEmailToCustomer follows
      Searched(looked, search) ==
        LET mailed == ~search.threw /\ search.value = "found" /\ config.GMAIL
            \* sendEmailToCustomer: its try and catch around sendMail
            send == IF mailed
                    THEN Catch(IF mailOk THEN Returns(TRUE) ELSE Throws, Returns(FALSE))
                    ELSE Returns(FALSE)
        IN [lookups |-> IF looked THEN 1 ELSE 0,
            contact |-> IF looked THEN contact ELSE "",
            emails |-> IF mailed THEN <<[to |-> customer, ok |-> mailOk]>> ELSE <<>>,
            threw |-> search.threw \/ send.threw]
      \* searchCustomerInHubSpot: its try and catch around the search
      Looked(looked) ==
        Searched(looked,
                 IF looked
                 THEN Catch(IF contact = "failed" THEN Throws ELSE Returns(contact),
                            Returns("none"))
                 ELSE Returns("none"))
  IN Looked(ShouldNotifyCustomer(updateText) # "" /\ customer # ""
              /\ config.HUBSPOT_API_KEY)

\* the handler's catch: nothing more is done, the response is sent
Failed(obs, issue, mail) ==
  [obs EXCEPT !.classified = TRUE, !.issue = issue, !.lookups = mail.lookups,
              !.contact = mail.contact, !.emails = mail.emails,
              !.responses = <<End(200)>>, !.status = End(200).status]

NoIssue_Mails(obs, mail) ==
  [obs EXCEPT !.classified = TRUE, !.lookups = mail.lookups, !.contact = mail.contact,
              !.emails = mail.emails]

\* the else branch of if (issue): nothing is looked up, mailed or posted
NoIssue(obs, mail) == [obs EXCEPT !.classified = TRUE]

\* the handler at time t on event ev, with the outcomes of the collaborators it
\* awaits: fetch (the row of the item getItemDetails returns, or Null), contact
\* (the HubSpot search found a contact, found none, or failed), mailOk (sendMail
\* did not throw), slackOk.  The tracking column of every item is empty:
\* normalizeCustomerTracking returns before it writes.
HandleIdx(ev, t, fetch, contact, mailOk, slackOk) ==
  LET itemId == ev.pulseId
      keep(obs) == [ambiguousStatusHistory |-> ambiguousStatusHistory, obs |-> obs]
      \* the handler from getLatestUpdateFromColumns on
      Fetched(boardConfig, columnMap, updateText) ==
        LET columns == boardConfig.columns
            location == GetLocationFromColumns(columnMap, columns)
            base(outcome) ==
              [Obs(outcome, t, itemId, updateText) EXCEPT !.fetched = TRUE, !.row = fetch]
            alert(obs, kind, issue) ==
              [obs EXCEPT
                 !.issue = issue, !.location = location,
                 !.coordinator = CreateSlackMessage(issue, itemId, columnMap, boardConfig,
                                                    location).coordinator,
                 !.posts = PostMessage(kind, AlertKey(itemId, updateText, issue.type), slackOk)]
            \* the handler from the return of checkAmbiguousStatus (amb) on
            Tracked(amb) ==
              LET tracked(outcome) ==
                    [base(outcome) EXCEPT
                       !.ambCalled = TRUE, !.ambBefore = ambiguousStatusHistory[itemId],
                       !.ambAfter = amb.table[itemId], !.ambIssue = amb.issue]
                  \* the handler from the return of analyzeIssue (issue) on
                  Analyzed(issue, mail) ==
                    [ambiguousStatusHistory |-> amb.table,
                     obs |-> IF issue = Null THEN NoIssue(tracked("no-issue"), mail)
                             ELSE IF mail.threw THEN Failed(tracked("error"), issue, mail)
                             ELSE [alert(tracked("alert"), "issue", issue) EXCEPT
                                     !.classified = TRUE,
                                     !.lookups = mail.lookups, !.contact = mail.contact,
                                     !.emails = mail.emails]]
              IN
              IF amb.issue # Null
              THEN [ambiguousStatusHistory |-> amb.table,
                    obs |-> alert(tracked("ambiguous-alert"), "ambiguous",
                                  WithCarrier(amb.issue, updateText))]
              ELSE Analyzed(AnalyzeIssue("index", updateText),
                            EmailPath(updateText, Column(columnMap, columns.customerName),
                                      contact, mailOk))
            \* the handler from the return of checkStuckStatus on
            \* detectCarrier and checkAmbiguousStatus call updateText.toLowerCase()
            Stuck(stuckIssue) ==
              IF ~IsText(updateText)
              THEN keep([Caught(base("error")) EXCEPT !.stuckIssue = stuckIssue])
              ELSE IF stuckIssue # Null
              THEN keep([alert(base("stuck-alert"), "stuck",
                               WithCarrier(stuckIssue, updateText))
                           EXCEPT !.stuckIssue = stuckIssue])
              ELSE Tracked(CheckAmbiguousStatus(AMBIGUOUS_STATUSES("index"),
                                                ambiguousStatusHistory, itemId,
                                                updateText, t))
        IN Stuck(CheckStuckStatus(columnMap, columns))
      Item(boardConfig, columnMap) ==
        Fetched(boardConfig, columnMap,
                IF ev.value # "" THEN ev.value
                ELSE GetLatestUpdateFromColumns(columnMap, boardConfig.columns))
      Board(boardConfig) == Item(boardConfig, ColumnMapIdx(fetch, boardConfig.columns))
  IN
  IF ev.challenge # "" THEN keep(Challenge(ev, t))
  ELSE IF ~ev.hasEvent \/ ev.boardId = "" \/ itemId = ""
  THEN keep(Obs("no-event", t, "", ""))
  ELSE IF BoardColumns(ev.boardId) = Null THEN keep(Obs("ignored", t, "", ""))
  ELSE IF fetch = Null THEN keep(Obs("fetch-failed", t, itemId, ev.value))
  ELSE Board(BOARD_CONFIGS[ev.boardId])

FetchesIdx(ev) ==
  ev.challenge = "" /\ ev.hasEvent /\ ev.boardId # "" /\ ev.pulseId # ""
    /\ BoardColumns(ev.boardId) # Null

\* await normalizeCustomerTracking(itemDetails, boardConfig), first thing
\* after the item is fetched: the write succeeds or monday.api throws, which
\* normalizeCustomerTracking catches
Normalized(ev, fetch, t) ==
  LET Wrote(current, value) ==
        \E ok \in Outcomes(value # "", BOOLEAN, TRUE) :
          /\ customerTracking' =
               IF value # "" /\ ok THEN [customerTracking EXCEPT ![ev.pulseId] = value]
               ELSE customerTracking
          /\ trackingWrites' =
               IF value # ""
               THEN [trackingWrites EXCEPT ![ev.pulseId] = Append(@, Write(current, value, ok, t))]
               ELSE trackingWrites
  IN IF FetchesIdx(ev) /\ fetch # Null
     THEN Wrote(customerTracking[ev.pulseId],
                normalizeCustomerTracking(customerTracking[ev.pulseId],
                                          BoardColumns(ev.boardId)))
     ELSE UNCHANGED <<customerTracking, trackingWrites>>

\* the outcomes of the HubSpot search the handlers are run with
Contacts == scope.contacts \cup {"found", ""}

MondayWebhookIdx ==
  /\ variant = "index"
  /\ events < MaxEvents
  /\ \E delay \in scope.delays, ev \in EventsIdx :
     \E fetch \in Outcomes(FetchesIdx(ev), {Null} \cup scope.rows, Null) :
     LET handle == [contact \in Contacts, mailOk \in BOOLEAN, slackOk \in BOOLEAN |->
                      HandleIdx(ev, now + delay, fetch, contact, mailOk, slackOk)] IN
     \E contact \in Outcomes(handle["found", TRUE, TRUE].obs.lookups > 0,
                             scope.contacts, "") :
     \E mailOk \in Outcomes(handle[contact, TRUE, TRUE].obs.emails # <<>>, BOOLEAN, TRUE) :
     \E slackOk \in Outcomes(handle[contact, mailOk, TRUE].obs.posts # <<>>,
                             BOOLEAN, TRUE) :
     \E r \in {handle[contact, mailOk, slackOk]} :
       /\ ambiguousStatusHistory' = r.ambiguousStatusHistory
       /\ Record([r.obs EXCEPT !.request = Request(ev)], now + delay)
       /\ Normalized(ev, fetch, now + delay)
  /\ UNCHANGED <<variant, config, scope, updateHistory, recentAlerts>>

----------------------------------------------------------------------------
(* part_002: POST /monday-webhook *)

\* itemDetails.columnMap of an item: customer name, latest location, region
ColumnMapP2(row) ==
  ("text1" :> row.customer) @@ ("text5__1" :> row.location) @@ ("status77" :> row.region)

\* getCustomerFromMonday(itemDetails): the name, "" for null
GetCustomerFromMonday_part002(columnMap) ==
  LET customerPatterns == <<"text1", "customer", "customer_name", "client", "company",
                            "consignee">>
      hits == {k \in DOMAIN customerPatterns : Column(columnMap, customerPatterns[k]) # ""}
  IN IF hits = {} THEN ""
     ELSE Column(columnMap, customerPatterns[CHOOSE k \in hits : \A j \in hits : k <= j])

\* getLocationFromColumns(columnMap) of part_002
GetLocationFromColumns_part002(columnMap) ==
  IF Column(columnMap, "text5__1") # "" THEN Column(columnMap, "text5__1")
  ELSE "Unknown Location"

EventBodiesP2 ==
  [challenge : {""}, hasEvent : {TRUE}, pulseId : scope.items, value : scope.texts]

EventsP2 ==
  EventBodiesP2
    \cup {[challenge |-> Token, hasEvent |-> TRUE, pulseId |-> "101", value |-> ""],
          [challenge |-> "", hasEvent |-> FALSE, pulseId |-> "", value |-> ""],
          [challenge |-> "", hasEvent |-> TRUE, pulseId |-> "101", value |-> ""]}

\* the handler at time t on event ev, with the outcomes of the collaborators as
\* in index.js
HandleP2(ev, t, fetch, contact, mailOk, slackOk) ==
  LET itemId == ev.pulseId
      updateText == ev.value
      keep(obs) == [ambiguousStatusHistory |-> ambiguousStatusHistory, obs |-> obs]
      \* the handler from the return of checkAmbiguousStatus (amb) on
      Tracked(columnMap, amb) ==
        LET tracked(outcome) ==
              [Obs(outcome, t, itemId, updateText) EXCEPT
                 !.fetched = TRUE, !.row = fetch,
                 !.ambCalled = TRUE, !.ambBefore = ambiguousStatusHistory[itemId],
                 !.ambAfter = amb.table[itemId], !.ambIssue = amb.issue]
            \* the handler from the return of analyzeIssue (issue) on
            Analyzed(issue, location, mail) ==
              [ambiguousStatusHistory |-> amb.table,
               obs |-> IF issue = Null THEN NoIssue(tracked("no-issue"), mail)
                       ELSE IF mail.threw THEN Failed(tracked("error"), issue, mail)
                       ELSE [tracked("alert") EXCEPT
                               !.classified = TRUE, !.issue = issue,
                               !.location = location,
                               !.coordinator =
                                  CreateSlackMessage_part002(issue, itemId, columnMap,
                                                             location).coordinator,
                               !.lookups = mail.lookups, !.contact = mail.contact,
                               !.emails = mail.emails,
                               !.posts = PostMessage("issue",
                                                AlertKey(itemId, updateText, issue.type),
                                                slackOk)]]
        IN
        IF amb.issue # Null
        THEN [ambiguousStatusHistory |-> amb.table, obs |-> tracked("ambiguous-logged")]
        ELSE Analyzed(AnalyzeIssue("part_002", updateText),
                      GetLocationFromColumns_part002(columnMap),
                      EmailPath(updateText, GetCustomerFromMonday_part002(columnMap),
                                contact, mailOk))
  IN
  IF ev.challenge # "" THEN keep(Challenge(ev, t))
  ELSE IF ~ev.hasEvent THEN keep(Obs("no-event", t, "", ""))
  ELSE IF updateText = "" THEN keep(Obs("ignored", t, itemId, ""))
  ELSE IF fetch = Null THEN keep(Obs("fetch-failed", t, itemId, updateText))
  \* checkAmbiguousStatus calls updateText.toLowerCase()
  ELSE IF ~IsText(updateText)
  THEN keep(Caught([Obs("error", t, itemId, updateText) EXCEPT
                      !.fetched = TRUE, !.row = fetch]))
  ELSE Tracked(ColumnMapP2(fetch),
               CheckAmbiguousStatus(AMBIGUOUS_STATUSES("part_002"), ambiguousStatusHistory,
                                    itemId, updateText, t))

FetchesP2(ev) == ev.challenge = "" /\ ev.hasEvent /\ ev.value # ""

MondayWebhookP2 ==
  /\ variant = "part_002"
  /\ events < MaxEvents
  /\ \E delay \in scope.delays, ev \in EventsP2 :
     \E fetch \in Outcomes(FetchesP2(ev), {Null} \cup scope.rows, Null) :
     LET handle == [contact \in Contacts, mailOk \in BOOLEAN, slackOk \in BOOLEAN |->
                      HandleP2(ev, now + delay, fetch, contact, mailOk, slackOk)] IN
     \E contact \in Outcomes(handle["found", TRUE, TRUE].obs.lookups > 0,
                             scope.contacts, "") :
     \E mailOk \in Outcomes(handle[contact, TRUE, TRUE].obs.emails # <<>>, BOOLEAN, TRUE) :
     \E slackOk \in Outcomes(handle[contact, mailOk, TRUE].obs.posts # <<>>,
                             BOOLEAN, TRUE) :
     \E r \in {handle[contact, mailOk, slackOk]} :
       /\ ambiguousStatusHistory' = r.ambiguousStatusHistory
       /\ Record([r.obs EXCEPT !.request = Request(ev)], now + delay)
  /\ UNCHANGED <<variant, config, scope, updateHistory, recentAlerts, customerTracking,
                 trackingWrites>>

----------------------------------------------------------------------------
(* The three programs *)

InitTables ==
  /\ now = 0
  /\ updateHistory = [i \in Items |-> Null]
  /\ ambiguousStatusHistory = [i \in Items |-> Null]
  /\ recentAlerts = << >>
  /\ last = Obs("start", 0, "", "")
  /\ trace = [i \in Items |-> NoTrace]
  /\ passAt = << >>
  /\ postAt = << >>
  /\ events = 0
  /\ trackingWrites = [i \in Items |-> << >>]
  /\ handlers = << >>

\* no item has a customer-tracking text
NoTracking == [i \in Items |-> ""]

\* no function is called by itself
NoCall == [fn |-> "none"]

\* the call has not returned
Pending == [pending |-> TRUE]

\* the latest-status column and the classification service are configured;
\* ALWAYS_ALERT is on or off
InitP1 ==
  /\ variant = "part_001"
  /\ input = NoCall /\ output = Pending
  /\ config \in [ALWAYS_ALERT : BOOLEAN, LATEST_UPDATE_COLUMN_ID : {LatestColumn},
                  GEMINI_API_KEY : {TRUE}, HUBSPOT_API_KEY : {FALSE}, GMAIL : {FALSE}]
  /\ scope \in ScopesP1
  /\ InitTables
  /\ customerTracking = NoTracking

NextP1 == MondayWebhookP1

SpecP1 == InitP1 /\ [][NextP1]_vars

\* process.env of index.js and part_002: HubSpot and the mail transporter are
\* configured
NoConfig ==
  [ALWAYS_ALERT |-> FALSE, LATEST_UPDATE_COLUMN_ID |-> "", GEMINI_API_KEY |-> FALSE,
   HUBSPOT_API_KEY |-> TRUE, GMAIL |-> TRUE]

\* index.js or part_002
InitAmbiguous ==
  /\ variant \in {"index", "part_002"}
  /\ input = NoCall /\ output = Pending
  /\ config = NoConfig
  /\ scope \in ScopesAmbiguous
  /\ InitTables
  /\ customerTracking = NoTracking

NextAmbiguous == MondayWebhookIdx \/ MondayWebhookP2

SpecAmbiguous == InitAmbiguous /\ [][NextAmbiguous]_vars

\* one of the deployments; the items of index.js have a customer-tracking text
\* that normalizeCustomerTracking rewrites, or none
InitDispatch ==
  /\ \E d \in Deployments : variant = d.variant /\ config = d.config /\ scope = d.scope
  /\ input = NoCall /\ output = Pending
  /\ InitTables
  /\ customerTracking \in
       {NoTracking} \cup
         (IF variant = "index"
          THEN {[i \in Items |-> IF i \in scope.items THEN text ELSE ""] :
                  text \in {" 1Z999AA10123456784 "}}
          ELSE {})

NextDispatch == MondayWebhookP1 \/ MondayWebhookIdx \/ MondayWebhookP2

SpecDispatch == InitDispatch /\ [][NextDispatch]_vars

----------------------------------------------------------------------------
(* The classifiers and the message builder, each called by itself *)

\* what the service can reply to analyzeWithGemini: a failure, a reply that is no
\* JSON, a JSON value that is no object, and objects with and without each
\* field, with values inside and outside the ones the prompt asks for
FunctionReplies ==
  {Reply("throw"), Reply("garbage"), Reply("null"), Reply("scalar")}
    \cup {ObjectReply(hasIssue, isResolved, issueType, severity, reason, currentLocation,
                      carrier) :
            hasIssue \in {"true", "false", "missing"},
            isResolved \in {"true", "false", "missing"},
            issueType \in {"customs_held", "tracking_stale", "lost_in_space", ""},
            severity \in {"high", "critical", ""},
            reason \in {"Customs hold", ""},
            currentLocation \in {"Leipzig", ""},
            carrier \in {"UPS", "Royal Mail", ""}}

GeminiTexts ==
  {"", "In transit", "UPS: Held by customs - import duties required",
   "DHL: Delivered - customs delay", "Premises closed"}

FunctionCalls ==
  {[fn |-> "detectIssueBasic", updateText |-> updateText] : updateText \in FunctionTexts}
    \cup {[fn |-> "analyzeIssue", variant |-> v, updateText |-> updateText] :
            v \in {"index", "part_002"}, updateText \in FunctionTexts \ {""}}
    \cup {[fn |-> "analyzeWithGemini", configured |-> configured,
            updateText |-> updateText, reply |-> reply] :
            configured \in BOOLEAN, updateText \in GeminiTexts, reply \in FunctionReplies}
    \cup {[fn |-> "createSlackMessage", variant |-> "index", boardId |-> boardId,
            region |-> region, carrier |-> carrier] :
            boardId \in DOMAIN BOARD_CONFIGS, region \in Regions,
            carrier \in {"UPS", "DHL", "unknown"}}
    \cup {[fn |-> "createSlackMessage", variant |-> "part_002", boardId |-> "",
            region |-> region, carrier |-> carrier] :
            region \in Regions, carrier \in {"UPS", "DHL", "unknown"}}

NoScope == Scope({}, {}, {}, {}, {}, {}, {})

InitFunctions ==
  /\ variant = "none"
  /\ config = NoConfig
  /\ scope = NoScope
  /\ InitTables
  /\ customerTracking = NoTracking
  /\ input \in FunctionCalls
  /\ output = Pending

Return(value) ==
  /\ output = Pending
  /\ output' = value
  /\ UNCHANGED <<variant, config, scope, now, updateHistory, ambiguousStatusHistory,
                 recentAlerts, last, trace, passAt, postAt, events, input,
                 customerTracking, trackingWrites, handlers>>

CallDetectIssueBasic ==
  /\ input.fn = "detectIssueBasic"
  /\ Return(Returns(DetectIssueBasic(input.updateText)))

CallAnalyzeIssue ==
  /\ input.fn = "analyzeIssue"
  /\ Return(Returns(AnalyzeIssue(input.variant, input.updateText)))

CallAnalyzeWithGemini ==
  /\ input.fn = "analyzeWithGemini"
  /\ Return(AnalyzeWithGeminiRun(input.configured, input.updateText, input.reply))

\* the issue and the item of a message built by itself
MessageIssue(carrier) ==
  [type |-> "held in customs", severity |-> "high", reason |-> "Customs issue detected",
   carrier |-> carrier]

CallCreateSlackMessage ==
  /\ input.fn = "createSlackMessage"
  /\ LET columnMap == ("status77" :> input.region) IN
       Return(Returns(
         IF input.variant = "index"
         THEN CreateSlackMessage(MessageIssue(input.carrier), "PO-1", columnMap,
                                 BOARD_CONFIGS[input.boardId], "Unknown Location")
         ELSE CreateSlackMessage_part002(MessageIssue(input.carrier), "PO-1", columnMap,
                                         "Unknown Location")))

NextFunctions ==
  \/ CallDetectIssueBasic
  \/ CallAnalyzeIssue
  \/ CallAnalyzeWithGemini
  \/ CallCreateSlackMessage

SpecFunctions == InitFunctions /\ [][NextFunctions]_vars

----------------------------------------------------------------------------
(* Properties *)

\* the entries of a status table, as a set
Entries(table) == {table[i] : i \in DOMAIN table}

\* the entries of the status table of the running variant whose phrase the text
\* contains
KnownIn(updateText) ==
  {e \in Entries(AMBIGUOUS_STATUSES(variant)) : Includes(ToLowerCase(updateText), e.status)}

\* C1: a call of checkForStaleUpdate returns a stale-tracking issue (severity
\* medium) if and only if the item already had a record whose text equals the
\* submitted text and the time since its firstSeenAt is strictly more than 36
\* hours; so it returns nothing on the first update of the item, on a text
\* change, and at 36 hours or less.
C1_StaleIff ==
  last.staleCalled =>
    LET before == last.staleBefore
        emitted == last.staleIssue # Null
    IN /\ emitted <=> (/\ before # Null
                       /\ before.lastUpdateText = last.text
                       /\ last.at - before.firstSeenAt > 36 * MsPerHour)
       /\ emitted => (last.staleIssue.type = StaleType /\ last.staleIssue.severity = "medium")

\* a call that returned a stale-tracking issue
C1_StaleEmitted == last.staleCalled /\ last.staleIssue # Null

\* C2 as stated: in a run of equal texts of an item at most one staleness alert
\* is dispatched, however far apart the later repeats are.
C2_OncePerRun == \A i \in Items : trace[i].staleAlerts <= 1

\* C2 amended: a delivery that reaches the staleness tracker dispatches a
\* staleness alert if and only if it repeats the text of the run, the run began
\* more than 36 hours ago, and no alert with the same (item, text, stale
\* tracking) key passed the suppressor within the last 5 minutes; a repeat more
\* than 5 minutes after the last dispatched alert dispatches another.
C2_RateLimited ==
  last.staleCalled =>
    LET tr == trace[last.item]
        key == AlertKey(last.item, last.text, StaleType)
        prev == IF last.dups # <<>> /\ last.dups[1].key = key
                THEN last.dups[1].prevPass
                ELSE LastTime(passAt, key)
    IN (last.outcome = "stale-alert") <=>
         (/\ tr.calls > 1
          /\ last.at - tr.runStart > 36 * MsPerHour
          /\ (prev = NoTime \/ last.at - prev > 5 * MsPerMinute))

\* a second staleness alert dispatched in the same run of equal texts
C2_SecondAlertInRun ==
  last.outcome = "stale-alert" /\ trace[last.item].staleAlerts >= 2

\* C3: a call of checkForStaleUpdate whose text differs from the recorded text
\* leaves the record with lastUpdateText the new text, firstSeenAt the time of
\* the call and updateCount 1, and returns nothing; and a stale-tracking issue
\* is returned only more than 36 hours after the latest text change fed to the
\* tracker for the item.
C3_ResetOnChange ==
  last.staleCalled =>
    /\ (last.staleBefore # Null /\ last.staleBefore.lastUpdateText # last.text) =>
         /\ last.staleIssue = Null
         /\ updateHistory[last.item].lastUpdateText = last.text
         /\ updateHistory[last.item].firstSeenAt = last.at
         /\ updateHistory[last.item].updateCount = 1
    /\ last.staleIssue # Null =>
         last.at - trace[last.item].runStart > 36 * MsPerHour

\* a text change arriving when the old text had been recorded for more than 36
\* hours
C3_ChangeAfterThreshold ==
  /\ last.staleCalled
  /\ last.staleBefore # Null
  /\ last.staleBefore.lastUpdateText # last.text
  /\ last.at - last.staleBefore.firstSeenAt > 36 * MsPerHour

\* C4 as stated: with ALWAYS_ALERT off, after every event that passes the
\* changed-column check the record of the item holds the text of the event and
\* the time of the event as last-seen, whatever the board fetch returned.
C4_EveryEventMutates ==
  (~config.ALWAYS_ALERT
     /\ last.outcome \notin {"start", "challenge", "no-event", "ignored"}) =>
    /\ updateHistory[last.item] # Null
    /\ updateHistory[last.item].lastUpdateText = last.text
    /\ updateHistory[last.item].lastSeenAt = last.at

\* C5: a call of checkAmbiguousStatus that finds no record for the item returns
\* no issue; when the text contains a known phrase it leaves a record holding a
\* phrase the text contains, the text, the time of the call as firstSeenAt and
\* the timeout of that phrase.
C5_FirstObservationSilent ==
  (last.ambCalled /\ last.ambBefore = Null) =>
    /\ last.ambIssue = Null
    /\ KnownIn(last.text) # {} =>
         /\ \E e \in KnownIn(last.text) :
              last.ambAfter = [status |-> e.status, updateText |-> last.text,
                               firstSeenAt |-> last.at, timeoutHours |-> e.hours]
         /\ ambiguousStatusHistory[last.item] = last.ambAfter

\* a call that found no record and created one
C5_RecordCreated == last.ambCalled /\ last.ambBefore = Null /\ last.ambAfter # Null

\* C6 as stated: when the item has a record, the text still contains the
\* recorded phrase and the time since firstSeenAt is at least the timeout of the
\* record, the call returns an ambiguous-timeout issue of severity high and the
\* record is deleted.
C6_TimeoutEmitsAndClears ==
  (/\ last.ambCalled
   /\ last.ambBefore # Null
   /\ Includes(ToLowerCase(last.text), last.ambBefore.status)
   /\ last.at - last.ambBefore.firstSeenAt >= last.ambBefore.timeoutHours * MsPerHour) =>
    /\ last.ambIssue # Null
    /\ last.ambIssue.type = AmbiguousType
    /\ last.ambIssue.severity = "high"
    /\ ambiguousStatusHistory[last.item] = Null

\* C7 as stated: for every phrase p of the table, an item whose text is p when
\* its record is started and is still p at a later call yields an issue at that
\* call if and only if the time since the record was started is at least T(p).
C7_OwnTimeout ==
  (last.ambCalled /\ last.ambBefore # Null) =>
    \A e \in Entries(AMBIGUOUS_STATUSES(variant)) :
      (/\ ToLowerCase(last.ambBefore.updateText) = e.status
       /\ ToLowerCase(last.text) = e.status) =>
        ((last.ambIssue # Null) <=>
           last.at - last.ambBefore.firstSeenAt >= e.hours * MsPerHour)

\* C8: after a call of checkAmbiguousStatus whose text contains no known phrase,
\* or no longer contains the phrase of the record of the item, the item has no
\* record and the call returned no issue, however old the record was.
C8_ClearsWhenResolved ==
  last.ambCalled =>
    LET none == KnownIn(last.text) = {}
        gone == /\ last.ambBefore # Null
                /\ ~Includes(ToLowerCase(last.text), last.ambBefore.status)
    IN (none \/ gone) =>
         (ambiguousStatusHistory[last.item] = Null /\ last.ambIssue = Null)

\* a record older than its timeout cleared by a text that contains another known
\* phrase
C8_OldRecordCleared ==
  /\ last.ambCalled
  /\ last.ambBefore # Null
  /\ ~Includes(ToLowerCase(last.text), last.ambBefore.status)
  /\ KnownIn(last.text) # {}
  /\ last.at - last.ambBefore.firstSeenAt >= last.ambBefore.timeoutHours * MsPerHour

\* C9: a call of isDuplicateAlert less than 5 minutes after the last call with
\* the same key that returned false returns true; a call with no such earlier
\* call, or more than 5 minutes after it, returns false.
C9_Window ==
  \A n \in 1..Len(last.dups) :
    LET c == last.dups[n] IN
      /\ (c.prevPass # NoTime /\ last.at - c.prevPass < 5 * MsPerMinute) => c.dup
      /\ (c.prevPass = NoTime \/ last.at - c.prevPass > 5 * MsPerMinute) => ~c.dup

\* a call that returned false more than 5 minutes after an earlier call with the
\* same key had returned false
C9_PassedAgain ==
  \E n \in 1..Len(last.dups) :
    /\ ~last.dups[n].dup
    /\ last.dups[n].prevPass # NoTime

\* C10 as stated: no alert for an issue (stuck status, ambiguous timeout,
\* staleness, classifier) is posted less than 5 minutes after an alert with the
\* same (item, text, issue type) was posted.
C10_NoTwoWithinWindow ==
  \A n \in 1..Len(last.posts) :
    LET p == last.posts[n] IN
      (p.ok /\ p.kind # "test") =>
        (p.prevPost = NoTime \/ last.at - p.prevPost >= 5 * MsPerMinute)

----------------------------------------------------------------------------
(* The classifiers *)

\* the text holds one of the delivered phrases of part_001 as whole words
DeliveredPhrase(updateText) ==
  \E part \in ISSUE_PATTERNS.delivered : WordScan(LowerOf(updateText), part)

\* the text holds a phrase of another pattern of detectIssueBasic
OtherPhrase(updateText) ==
  \E n \in {"upsCustomsIndia", "dhlCustomsChina", "fedexCustomsChina", "deliveryFailed",
             "transitIssues", "damageOrLoss", "brexitEu"} :
    \E part \in ISSUE_PATTERNS[n] : Scan(LowerOf(updateText), part)

RESPONSE_FORMAT ==
  [issueType |-> {"customs_held", "delivery_failed", "transit_delay", "hub_delay",
                  "final_mile_issue", "damage_loss", "eu_customs_complex",
                  "tracking_stale", ""},
   severity |-> {"high", "medium", "low"},
   carrier |-> {"UPS", "DHL", "FedEx", "unknown"}]

\* the reply is JSON that lacks hasIssue or names an issue type outside the format
ShapeMismatch(reply) ==
  /\ reply.kind \in {"scalar", "object"}
  /\ reply.hasIssue = "missing" \/ reply.issueType \notin RESPONSE_FORMAT.issueType

\* C15: on a reply that is JSON of another shape than the format, analyzeWithGemini
\* returns what detectIssueBasic returns on the text
C15_MismatchFallsBack ==
  /\ output # Pending
  /\ input.fn = "analyzeWithGemini"
  /\ input.configured
  /\ ShapeMismatch(input.reply)
  => output = Returns(DetectIssueBasic(input.updateText))

----------------------------------------------------------------------------
(* The coordinator *)

\* the region a value of the region column names, "" when it names none
NamedRegion(region) ==
  LET upperRegion == ToUpperCase(region)
  IN IF upperRegion \in {"INDIA", "IN"} THEN "INDIA"
     ELSE IF upperRegion \in {"CHINA", "CN"} THEN "CHINA"
     ELSE IF upperRegion \in {"PORTUGAL", "PT"} THEN "PORTUGAL"
     ELSE ""

\* the coordinator of a region, "" for none
RegionCoordinator(region) ==
  IF region = "INDIA" THEN Mention(HARITHA_USER_ID)
  ELSE IF region = "CHINA" THEN Mention(RACHEL_USER_ID)
  ELSE ""

\* text begins with prefix
StartsWith(text, prefix) ==
  Len(prefix) <= Len(text) /\ SubSeq(text, 1, Len(prefix)) = prefix

\* C20: the message is addressed to the coordinator of the region: of the board's
\* region on a board of one region, of the region the region column names on the
\* mixed board (part_002 has the one board, of mixed regions); when there is no
\* such coordinator the message names nobody and begins with the board's name
C20_MentionsRegionCoordinator ==
  output # Pending /\ input.fn = "createSlackMessage" =>
    LET mixed == input.variant = "part_002" \/ BOARD_CONFIGS[input.boardId].region = "MIXED"
        coordinator == IF mixed THEN RegionCoordinator(NamedRegion(input.region))
                       ELSE RegionCoordinator(BOARD_CONFIGS[input.boardId].region)
    IN /\ output.value.coordinator = coordinator
       /\ coordinator # "" => StartsWith(output.value.text, coordinator \o " ")
       /\ coordinator = "" /\ input.variant = "index" =>
            StartsWith(output.value.text, "**" \o BOARD_CONFIGS[input.boardId].name \o "**: ")

----------------------------------------------------------------------------
(* Dispatch *)

\* the checks of the delivery that ran returned no issue
NoCheckFoundAnIssue ==
  /\ last.stuckIssue = Null
  /\ last.ambIssue = Null
  /\ last.staleIssue = Null
  /\ last.issue = Null

\* C11: with ALWAYS_ALERT off, a delivery on which no check that ran returned an
\* issue posts no alert, searches no contact and sends no e-mail
C11_NoIssueNoAlert ==
  ~config.ALWAYS_ALERT /\ NoCheckFoundAnIssue =>
    last.posts = <<>> /\ last.emails = <<>> /\ last.lookups = 0

\* a delivery went through every check of its program and none returned an
\* issue, on a text that asks for a customer notification
C11_AllChecksRanNoIssue ==
  /\ ~config.ALWAYS_ALERT
  /\ last.outcome = "no-issue"
  /\ last.classified
  /\ last.ambCalled
  /\ last.row # Null /\ last.row.customer # ""
  /\ ShouldNotifyCustomer(last.text) # ""

\* the issue the delivery built its alert from, Null when it posted none
DispatchedIssue ==
  IF last.posts = <<>> \/ last.outcome = "test" THEN Null
  ELSE IF last.outcome = "stale-alert" THEN last.staleIssue
  ELSE last.issue

\* issue[f], "" for a field the issue does not have or that is undefined
Field(issue, f) == IF f \in DOMAIN issue THEN issue[f] ELSE ""

\* C12: every issue an alert is built from has a severity that is high, medium
\* or low and a reason, and, where the alert shows a carrier (every alert but
\* the staleness alert of part_001), a carrier that is UPS, DHL, FedEx or unknown
C12_DispatchedIssueWellFormed ==
  DispatchedIssue # Null =>
    /\ Field(DispatchedIssue, "severity") \in {"high", "medium", "low"}
    /\ Field(DispatchedIssue, "reason") # ""
    /\ last.outcome # "stale-alert" =>
         Field(DispatchedIssue, "carrier") \in {"UPS", "DHL", "FedEx", "unknown"}

\* C16: an alert for an item whose latest-location column has a text gives that
\* text as the location, whatever the classifier and the update text say
C16_StructuredLocationWins ==
  /\ DispatchedIssue # Null
  /\ last.row # Null
  /\ last.row.location # ""
  => last.location = last.row.location

\* the delivery reached the customer e-mail of index.js or part_002: its text is
\* an issue to the classifier and asks for a customer notification
NotifiableIssue ==
  /\ variant \in {"index", "part_002"}
  /\ last.classified
  /\ last.issue # Null
  /\ ShouldNotifyCustomer(last.text) # ""

\* C17: a delivery whose issue asks for a customer notification attempts the chat
\* post whatever became of the e-mail (no customer name, no contact, a failed
\* search, no transporter, a failed send), and every delivery is answered
C17_PostWhateverEmail ==
  /\ last.status = 200
  /\ NotifiableIssue => Len(last.posts) = 1

\* the e-mail was attempted and failed, and so did the chat post
C17_MailAndPostFailed ==
  /\ NotifiableIssue
  /\ last.emails # <<>> /\ ~last.emails[1].ok
  /\ last.posts # <<>> /\ ~last.posts[1].ok
  /\ last.status = 200

\* the customer-facing-action set as the claim lists it: the four patterns of
\* CUSTOMER_NOTIFICATION_PATTERNS and the generic "delivery attempted"
CustomerFacingAction(updateText) ==
  \/ ShouldNotifyCustomer(updateText) # ""
  \/ Includes(ToLowerCase(updateText), "delivery attempted")

\* C18: on index.js and part_002 with HubSpot key and mail transporter, an update
\* that matches the customer-facing-action set on an item with a customer name
\* has the contact looked up, and a contact that is found is sent an e-mail
C18_MatchingUpdateIsMailed ==
  /\ variant \in {"index", "part_002"}
  /\ config.HUBSPOT_API_KEY /\ config.GMAIL
  /\ last.row # Null
  /\ last.row.customer # ""
  /\ CustomerFacingAction(last.text)
  => /\ last.lookups = 1
     /\ last.contact = "found" => Len(last.emails) = 1

\* the update of the claim's example
HeldByCustoms == "Held by customs - import duties required"

\* C19: a contact look-up or a customer e-mail happens only on an update that
\* matches a customer-notification pattern; the update 'Held by customs - import
\* duties required', once classified, is a held-in-customs issue of severity
\* high with one chat post, no contact look-up and no e-mail
C19_MailOnlyOnNotificationText ==
  /\ last.lookups > 0 \/ last.emails # <<>> => ShouldNotifyCustomer(last.text) # ""
  /\ last.text = HeldByCustoms /\ last.classified =>
       /\ last.issue # Null
       /\ last.issue.type = "held in customs"
       /\ last.issue.severity = "high"
       /\ Len(last.posts) = 1
       /\ last.lookups = 0
       /\ last.emails = <<>>

\* index.js alerted on the customs update of an item that has a customer name,
\* with HubSpot key and mail transporter configured
C19_CustomsAlertWithoutMail ==
  /\ variant = "index"
  /\ config.HUBSPOT_API_KEY /\ config.GMAIL
  /\ last.text = HeldByCustoms
  /\ last.row # Null /\ last.row.customer # ""
  /\ last.outcome = "alert"
  /\ last.issue.type = "held in customs"
  /\ Len(last.posts) = 1 /\ last.lookups = 0 /\ last.emails = <<>>

\* C21: every request is answered once, and the answer has status 200, whatever
\* path the handler took: handshake, ignored event, failed board fetch, failed
\* chat post, failed e-mail, exception
C21_OneResponse200 ==
  last.outcome # "start" =>
    /\ Len(last.responses) = 1
    /\ last.responses[1].status = 200

\* the handler threw on an update that is no text, after the board returned the
\* item, and its catch answered
C21_AnsweredFromCatch ==
  /\ last.outcome = "error"
  /\ last.fetched
  /\ ~IsText(last.text)
  /\ last.responses = <<End(200)>>

\* the state tables of the three programs
Tables == <<updateHistory, ambiguousStatusHistory, recentAlerts>>

\* the board, the chat, the e-mail, the contact lookup or the classification
\* service was called in the delivery observed
CalledOut(obs) ==
  \/ obs.fetched
  \/ obs.classified
  \/ obs.posts # <<>>
  \/ obs.lookups # 0
  \/ obs.emails # <<>>

\* C22: a request that carries a challenge is answered with {challenge: the same
\* value} and nothing else happens: the three tables stay as they were and no
\* collaborator is called, also when the request carries an event
C22_ChallengeOnlyEchoed ==
  [][last'.request.challenge # "" =>
       /\ last'.responses = <<Json([challenge |-> last'.request.challenge])>>
       /\ Tables' = Tables
       /\ ~CalledOut(last')]_vars

\* a challenge that came with an event was answered when a table held a record
C22_ChallengeWithEvent ==
  /\ last.request.challenge = Token
  /\ last.request.hasEvent
  /\ last.responses = <<Json([challenge |-> Token])>>
  /\ \/ \E i \in Items : updateHistory[i] # Null \/ ambiguousStatusHistory[i] # Null
     \/ recentAlerts # << >>

\* the request is one the handler ignores: in part_001 the column that changed
\* is not the configured latest-status column; in index.js the event, the board
\* id or the item id is missing, or the board has no configuration
IgnoredRequest(req) ==
  /\ req.challenge = ""
  /\ \/ /\ variant = "part_001"
        /\ req.hasEvent
        /\ config.LATEST_UPDATE_COLUMN_ID # ""
        /\ req.columnId # config.LATEST_UPDATE_COLUMN_ID
     \/ /\ variant = "index"
        /\ \/ ~req.hasEvent
           \/ req.boardId = ""
           \/ ~req.hasItem
           \/ req.boardId \notin DOMAIN BOARD_CONFIGS

\* C23: an event the handler ignores is acknowledged with 200, leaves the three
\* tables as they were and calls no collaborator
C23_IgnoredEventHasNoEffect ==
  [][IgnoredRequest(last'.request) =>
       /\ last'.responses = <<End(200)>>
       /\ Tables' = Tables
       /\ ~CalledOut(last')]_vars

\* part_001 acknowledged a change of another column while it tracked an item
C23_OtherColumnIgnored ==
  /\ variant = "part_001"
  /\ IgnoredRequest(last.request)
  /\ last.request.columnId = OtherColumn
  /\ last.responses = <<End(200)>>
  /\ \E i \in Items : updateHistory[i] # Null

----------------------------------------------------------------------------
(* index.js: the normalization of the customer-tracking column *)

\* texts of a customer-tracking column: a tracking number, a tracking URL of a
\* carrier, a note, with and without spaces around
TrackingTexts ==
  {prefix \o keyword \o separator \o token \o suffix :
     prefix \in {"", "https://www.dhl.com/gb-en/home/tracking.html?", "HTTP://t.co/", "see "},
     keyword \in {"", "tracking-id", "AWB", "tracknumbers", "tracknum", "trackingNumber",
                  "id"},
     separator \in {"", "=", ":"},
     token \in {"1234567", "1Z999AA1", "JD014600003828392837",
                "1234567890123456789012345678901234567"},
     suffix \in {"", "&lang=en", " ", " x"}}

\* the customer-tracking texts of the items of the deliveries
BoardTrackingTexts ==
  {"", "1Z999AA10123456784", " 1Z999AA10123456784 ", "see the e-mail of Friday",
   "https://www.ups.com/track?loc=en_GB&tracknum=1Z999AA10123456784&requester=ST",
   "https://www.dhl.com/gb-en/home/tracking.html?tracking-id=JD014600003828392837",
   "https://carrier.example/track"}

\* index.js on one item of the main board whose update is no issue
ScopeTracking ==
  Scope({"101"}, {"Out for delivery"}, {1}, {MainBoard}, {Row("", "", "", "")}, {}, {})

\* index.js on an item with a customer-tracking text, or extractTrackingNumber
\* called by itself
InitTracking ==
  /\ config = NoConfig
  /\ InitTables
  /\ output = Pending
  /\ \/ /\ variant = "index"
        /\ scope = ScopeTracking
        /\ input = NoCall
        /\ \E text \in BoardTrackingTexts :
             customerTracking = [i \in Items |-> IF i \in scope.items THEN text ELSE ""]
     \/ /\ variant = "none"
        /\ scope = NoScope
        /\ customerTracking = NoTracking
        /\ \E raw \in TrackingTexts : input = [fn |-> "extractTrackingNumber", raw |-> raw]

CallExtractTrackingNumber ==
  /\ input.fn = "extractTrackingNumber"
  /\ Return(Returns(extractTrackingNumber(input.raw)))

NextTracking == MondayWebhookIdx \/ CallExtractTrackingNumber

SpecTracking == InitTracking /\ [][NextTracking]_vars

\* C24: extractTrackingNumber applied to its own result returns it; every
\* normalization write sends the extracted value of the text the column had, which
\* differs from that text; and after a write that the board applied no further
\* write is issued for the item
C24_NormalizationIdempotent ==
  /\ output # Pending /\ input.fn = "extractTrackingNumber" =>
       extractTrackingNumber(output.value) = output.value
  /\ \A i \in Items : \A k \in 1..Len(trackingWrites[i]) :
       /\ trackingWrites[i][k].value = extractTrackingNumber(trackingWrites[i][k].from)
       /\ trackingWrites[i][k].value # trackingWrites[i][k].from
       /\ trackingWrites[i][k].ok => k = Len(trackingWrites[i])

\* a tracking URL was replaced by its number in an earlier delivery, and the
\* item has been fetched again since
C24_FetchedAfterWrite ==
  /\ last.fetched
  /\ last.item \in Items
  /\ trackingWrites[last.item] # << >>
  /\ LET w == trackingWrites[last.item][Len(trackingWrites[last.item])]
     IN /\ w.ok
        /\ w.at < last.at
        /\ HasScheme(w.from)
        /\ customerTracking[last.item] = w.value

----------------------------------------------------------------------------
(* part_001: requests handled at the same time.  A handler runs from one *)
(* await to the next without giving way; at an await the event loop runs  *)
(* whichever handler's call has returned.                                 *)

MaxHandlers == 2

\* part_001 with the classification service: one item, two texts, requests that
\* arrive together or apart, calls that return at once, after the window of the
\* suppressor or after the staleness threshold
ScopeConcurrent ==
  Scope({"101"}, {"Held by customs", "In transit"},
        {0, 5 * MsPerMinute + 1, staleThresholdMs + 1}, {},
        {Row("", "", "", "")}, {NoIssueReply, IssueReply("customs_held", "")}, {})

InitConcurrent ==
  /\ variant = "part_001"
  /\ input = NoCall /\ output = Pending
  /\ config = [ALWAYS_ALERT |-> FALSE, LATEST_UPDATE_COLUMN_ID |-> LatestColumn,
               GEMINI_API_KEY |-> TRUE, HUBSPOT_API_KEY |-> FALSE, GMAIL |-> FALSE]
  /\ scope = ScopeConcurrent
  /\ InitTables
  /\ customerTracking = NoTracking

\* a handler: its event, the await it is suspended at ("done" once it has
\* answered), and what it did: its place among the calls of checkForStaleUpdate
\* (0: none yet) and the calls of isDuplicateAlert that returned false
Handler(ev, pc) == [ev |-> ev, pc |-> pc, tracked |-> 0, passed |-> << >>]

\* the number of handlers that have called checkForStaleUpdate
TrackerCalls == Cardinality({i \in DOMAIN handlers : handlers[i].tracked > 0})

Pass(key, t) == [key |-> key, at |-> t]

\* the steps of a handler leave the rest of the state alone
Stepped(t) ==
  /\ now' = t
  /\ UNCHANGED <<variant, config, scope, ambiguousStatusHistory, last, trace, passAt,
                 postAt, events, input, output, customerTracking, trackingWrites>>

\* a request arrives: the handler runs to await getItemDetails(itemId), or
\* answers at once when the column is not the latest-status column
Arrives ==
  /\ Len(handlers) < MaxHandlers
  /\ \E delay \in scope.delays, ev \in EventBodiesP1 :
       /\ handlers' = Append(handlers,
                             Handler(ev, IF ColumnIgnored(ev.columnId) THEN "done"
                                         ELSE "getItemDetails"))
       /\ Stepped(now + delay)
  /\ UNCHANGED <<updateHistory, recentAlerts>>

\* getItemDetails returns to handler i: checkForStaleUpdate, isDuplicateAlert on
\* a staleness issue, and on to the post or to await analyzeWithGemini
ItemDetailsReturn(i) ==
  /\ handlers[i].pc = "getItemDetails"
  /\ \E delay \in scope.delays, fetch \in {Null} \cup scope.rows :
     LET t == now + delay
         itemId == handlers[i].ev.pulseId
         updateText == handlers[i].ev.value
         Checked(st, d1) ==
           /\ updateHistory' = st.table
           /\ recentAlerts' = d1.table
           /\ handlers' =
                [handlers EXCEPT
                   ![i].tracked = TrackerCalls + 1,
                   ![i].pc = IF StaleAlerted(st.issue, d1.dup) THEN "postMessage"
                             ELSE "analyzeWithGemini",
                   ![i].passed =
                     IF StaleAlerted(st.issue, d1.dup)
                     THEN Append(@, Pass(AlertKey(itemId, updateText, StaleType), t))
                     ELSE @]
         Stale(st) ==
           Checked(st, IF st.issue # Null
                       THEN IsDuplicateAlert(recentAlerts, itemId, updateText,
                                             st.issue.type, t)
                       ELSE [table |-> recentAlerts, dup |-> FALSE])
     IN /\ IF fetch = Null
           THEN /\ handlers' = [handlers EXCEPT ![i].pc = "done"]
                /\ UNCHANGED <<updateHistory, recentAlerts>>
           ELSE Stale(CheckForStaleUpdate(updateHistory, itemId, updateText, t))
        /\ Stepped(t)

\* analyzeWithGemini returns to handler i: no issue, or isDuplicateAlert and on to
\* the post
AnalysisReturns(i) ==
  /\ handlers[i].pc = "analyzeWithGemini"
  /\ \E delay \in scope.delays, reply \in scope.replies :
     LET t == now + delay
         itemId == handlers[i].ev.pulseId
         updateText == handlers[i].ev.value
         Found(issue, d2) ==
           /\ recentAlerts' = d2.table
           /\ handlers' =
                [handlers EXCEPT
                   ![i].pc = IF d2.dup THEN "done" ELSE "postMessage",
                   ![i].passed =
                     IF d2.dup THEN @
                     ELSE Append(@, Pass(AlertKey(itemId, updateText, issue.type), t))]
         Analyzed(run) ==
           IF run.threw \/ run.value = Null
           THEN /\ handlers' = [handlers EXCEPT ![i].pc = "done"]
                /\ UNCHANGED recentAlerts
           ELSE Found(run.value,
                      IsDuplicateAlert(recentAlerts, itemId, updateText, run.value.type, t))
     IN /\ Analyzed(AnalyzeWithGeminiRun(config.GEMINI_API_KEY, updateText, reply))
        /\ UNCHANGED updateHistory
        /\ Stepped(t)

\* slack.chat.postMessage returns or throws: the handler answers
PostMessageReturns(i) ==
  /\ handlers[i].pc = "postMessage"
  /\ \E delay \in scope.delays :
       /\ handlers' = [handlers EXCEPT ![i].pc = "done"]
       /\ Stepped(now + delay)
  /\ UNCHANGED <<updateHistory, recentAlerts>>

NextConcurrent ==
  \/ Arrives
  \/ \E i \in DOMAIN handlers : ItemDetailsReturn(i)
  \/ \E i \in DOMAIN handlers : AnalysisReturns(i)
  \/ \E i \in DOMAIN handlers : PostMessageReturns(i)

SpecConcurrent == InitConcurrent /\ [][NextConcurrent]_vars

\* C25: of two events for the same item, the one that arrived first is fed to the
\* tracker first, whichever of the calls the handlers await returns first
C25_TrackedInArrivalOrder ==
  \A i, j \in DOMAIN handlers :
    /\ i < j
    /\ handlers[i].ev.pulseId = handlers[j].ev.pulseId
    /\ handlers[i].ev.value # handlers[j].ev.value
    /\ handlers[i].tracked > 0
    /\ handlers[j].tracked > 0
    => handlers[i].tracked < handlers[j].tracked

\* the calls of isDuplicateAlert that returned false, of all the handlers
Passes ==
  UNION {{<<i, k>> : k \in 1..Len(handlers[i].passed)} : i \in DOMAIN handlers}

PassOf(p) == handlers[p[1]].passed[p[2]]

\* C26: the trackers and the suppressor run from their read to their write with
\* no await, so of the calls of isDuplicateAlert with the same (item, text, issue
\* type) that handlers running at the same time make within 5 minutes, at most
\* one returns false
C26_OnePassPerWindow ==
  \A p, q \in Passes :
    /\ p # q
    /\ PassOf(p).key = PassOf(q).key
    /\ PassOf(p).at <= PassOf(q).at
    => PassOf(q).at - PassOf(p).at > 5 * MsPerMinute

\* two handlers for the same item and text were both past their fetch, called
\* isDuplicateAlert with the same key in the same millisecond, and one passed
C26_OneOfTwoPassed ==
  /\ Len(handlers) = 2
  /\ handlers[1].ev = handlers[2].ev
  /\ handlers[2].tracked = 1 /\ handlers[1].tracked = 2
  /\ handlers[1].pc = "postMessage" /\ handlers[2].pc = "done"
  /\ Len(handlers[1].passed) = 1 /\ handlers[2].passed = << >>
  /\ now = handlers[1].passed[1].at

----------------------------------------------------------------------------
(* part_001: detectIssueBasic against its rules, first match wins *)

\* the patterns of a carrier: normal progress, customs resolved, customs active
CarrierPatterns ==
  [UPS |-> [normal |-> "upsNormalIndia", resolved |-> "upsCustomsResolvedIndia",
            active |-> "upsCustomsIndia"],
   DHL |-> [normal |-> "dhlNormalChina", resolved |-> "dhlCustomsResolvedChina",
            active |-> "dhlCustomsChina"],
   FedEx |-> [normal |-> "fedexNormalChina", resolved |-> "fedexCustomsResolvedChina",
              active |-> "fedexCustomsChina"]]

\* the text matches the pattern of that sort of the carrier detected in it
CarrierMatch(text, sort) ==
  LET carrier == DetectCarrier_part001(text)
  IN carrier \in DOMAIN CarrierPatterns /\ Test(CarrierPatterns[carrier][sort], text)

NoKind == [kind |-> "none", severity |-> ""]

Kind(kind, severity) == [kind |-> kind, severity |-> severity]

\* the rules in their order, each with whether the lower-case text matches it
OrderedRules(text) ==
  << [hit |-> Test("delivered", text), result |-> NoKind],
     [hit |-> CarrierMatch(text, "normal"), result |-> NoKind],
     [hit |-> CarrierMatch(text, "resolved"), result |-> NoKind],
     [hit |-> CarrierMatch(text, "active"), result |-> Kind("held-in-customs", "high")],
     [hit |-> Test("deliveryFailed", text), result |-> Kind("delivery-failure", "high")],
     [hit |-> Test("ukEuDelivery", text), result |-> Kind("final-mile-issue", "high")],
     [hit |-> Test("hubIssues", text), result |-> Kind("hub-delay", "medium")],
     [hit |-> Test("transitIssues", text), result |-> Kind("transit-delay", "medium")],
     [hit |-> Test("damageOrLoss", text), result |-> Kind("damage-or-loss", "high")],
     [hit |-> Test("brexitEu", text), result |-> Kind("eu-customs-complexity", "medium")] >>

RECURSIVE FirstMatchWins(_)
FirstMatchWins(rules) ==
  IF rules = << >> THEN NoKind
  ELSE IF Head(rules).hit THEN Head(rules).result
  ELSE FirstMatchWins(Tail(rules))

\* the kind of an issue type of detectIssueBasic
KindOfType ==
  ("held in customs" :> "held-in-customs")
    @@ ("experiencing delivery failure" :> "delivery-failure")
    @@ ("experiencing final mile delivery issue" :> "final-mile-issue")
    @@ ("experiencing processing delay at hub" :> "hub-delay")
    @@ ("experiencing transit delay" :> "transit-delay")
    @@ ("experiencing damage or loss issue" :> "damage-or-loss")
    @@ ("experiencing EU customs complexity" :> "eu-customs-complexity")

KindOfIssue(issue) ==
  IF issue = Null THEN NoKind ELSE Kind(KindOfType[issue.type], issue.severity)

\* C27: detectIssueBasic returns what the first matching rule of the ordered
\* rules gives: delivered, the detected carrier's normal progress and its resolved
\* customs give no issue, then its active customs, delivery failure, final mile,
\* hub delay, transit delay, damage or loss, EU customs; no issue when none matches
C27_FirstMatchingRuleWins ==
  output # Pending /\ input.fn = "detectIssueBasic" =>
    /\ ~output.threw
    /\ KindOfIssue(output.value) = FirstMatchWins(OrderedRules(LowerOf(input.updateText)))

\* detectIssueBasic returned no issue on a text that matches the resolved and the
\* active customs pattern of its carrier, and neither delivered nor normal progress
C27_ResolvedBeforeActive ==
  /\ output = Returns(Null)
  /\ input.fn = "detectIssueBasic"
  /\ CarrierMatch(LowerOf(input.updateText), "resolved")
  /\ CarrierMatch(LowerOf(input.updateText), "active")
  /\ ~CarrierMatch(LowerOf(input.updateText), "normal")
  /\ ~Test("delivered", LowerOf(input.updateText))

\* C28: a call of checkForStaleUpdate that returns a staleness issue leaves the
\* record with its text and firstSeenAt, the count one higher and lastSeenAt the
\* time of the call; once an issue was returned in a run of equal texts, every
\* later call of the run returns one, with hoursStale no lower; and the alert is
\* dispatched unless isDuplicateAlert says it is a duplicate
C28_StaleIssueKeepsRecord ==
  [][last'.staleCalled /\ events' # events =>
       LET before == updateHistory[last'.item]
           after == updateHistory'[last'.item]
           tr == trace[last'.item]
       IN /\ last'.staleIssue # Null =>
               /\ after = [before EXCEPT !.lastSeenAt = last'.at, !.updateCount = @ + 1]
               /\ (last'.outcome = "stale-alert") <=> ~last'.dups[1].dup
          /\ (tr.calls > 0 /\ tr.text = last'.text /\ tr.staleHours # NoTime) =>
               /\ last'.staleIssue # Null
               /\ last'.staleIssue.hoursStale >= tr.staleHours]_vars

\* the third call of a run returned a staleness issue as the second had
C28_IssueAfterIssue ==
  /\ last.staleCalled
  /\ last.staleIssue # Null
  /\ last.staleBefore.updateCount >= 2
  /\ last.staleBefore.lastSeenAt - last.staleBefore.firstSeenAt > staleThresholdMs
  /\ updateHistory[last.item].firstSeenAt = last.staleBefore.firstSeenAt

\* C29: at a call of checkAmbiguousStatus on an item that has a record and whose
\* text still holds the phrase of the record, an issue is returned if and only if
\* the time since the record was made is at least the timeout stored in the
\* record, whatever other phrases of the table the text holds
C29_StoredTimeoutCompared ==
  (/\ last.ambCalled
   /\ last.ambBefore # Null
   /\ Includes(ToLowerCase(last.text), last.ambBefore.status)) =>
    ((last.ambIssue # Null) <=>
       last.at - last.ambBefore.firstSeenAt >= last.ambBefore.timeoutHours * MsPerHour)

\* C30: in index.js and part_002, an event on which checkAmbiguousStatus returns
\* an ambiguous-timeout issue has a chat post attempted for that issue before it is
\* answered
C30_TimeoutIssuePosted ==
  (last.ambCalled /\ last.ambIssue # Null) =>
    /\ Len(last.posts) = 1
    /\ last.posts[1].key = AlertKey(last.item, last.text, last.ambIssue.type)
    /\ Len(last.responses) = 1

----------------------------------------------------------------------------
(* The stuck status of index.js *)

\* the delivery fetched an item of a known board whose transit status contains
\* "stuck" in any case
StuckItem(obs) ==
  /\ variant = "index"
  /\ obs.fetched
  /\ obs.row # Null
  /\ Includes(ToLowerCase(obs.row.status), "stuck")

\* C31: a delivery for an item whose transit status contains "stuck" attempts
\* one chat post, of a stuck-in-transit issue of severity high, and ends there:
\* neither checkAmbiguousStatus nor the classifier is run, no contact is looked
\* up and no mail is sent
C31_StuckAlertsAndEnds ==
  StuckItem(last) =>
    /\ Len(last.posts) = 1
    /\ last.posts[1].kind = "stuck"
    /\ last.issue # Null
    /\ last.issue.type = "stuck in transit"
    /\ last.issue.severity = "high"
    /\ ~last.ambCalled
    /\ ~last.classified
    /\ last.lookups = 0
    /\ last.emails = <<>>

\* the same for deliveries whose update is text or absent
C31_StuckAlertsOnText ==
  StuckItem(last) /\ IsText(last.text) =>
    /\ Len(last.posts) = 1
    /\ last.posts[1].kind = "stuck"
    /\ last.issue # Null
    /\ last.issue.type = "stuck in transit"
    /\ last.issue.severity = "high"
    /\ ~last.ambCalled
    /\ ~last.classified
    /\ last.lookups = 0
    /\ last.emails = <<>>

\* a stuck item's delivery leaves ambiguousStatusHistory as it was
C31_StuckKeepsHistory ==
  [][StuckItem(last') /\ last'.at = now' /\ events' = events + 1
       => ambiguousStatusHistory' = ambiguousStatusHistory]_vars

----------------------------------------------------------------------------
(* part_001: the classifier after a suppressed staleness issue *)

\* the latest delivery's isDuplicateAlert call on the staleness issue
StaleDupCall == last.dups[1]

\* the key of the call passed the suppressor within the five minutes before t
PassedWithinWindow(call, t) ==
  call.prevPass # NoTime /\ t - call.prevPass <= 5 * MsPerMinute

\* C32: when checkForStaleUpdate returns an issue and isDuplicateAlert suppresses
\* it, the same delivery calls analyzeWithGemini with the stale flag set, and an
\* issue it returns whose key did not pass the suppressor in the last 5 minutes
\* is posted; when the staleness issue is not suppressed the staleness alert is
\* posted and analyzeWithGemini is not called
C32_ClassifierAfterSuppressedStale ==
  variant = "part_001" /\ last.staleCalled /\ last.staleIssue # Null =>
    /\ Len(last.dups) >= 1
    /\ StaleDupCall.key = AlertKey(last.item, last.text, StaleType)
    /\ StaleDupCall.dup =>
         /\ last.classified
         /\ last.isStaleUpdate
         /\ last.issue # Null =>
              /\ Len(last.dups) = 2
              /\ last.dups[2].key = AlertKey(last.item, last.text, last.issue.type)
              /\ ~PassedWithinWindow(last.dups[2], last.at) =>
                   /\ Len(last.posts) = 1
                   /\ last.posts[1].kind = "issue"
                   /\ last.posts[1].key = last.dups[2].key
    /\ ~StaleDupCall.dup =>
         /\ ~last.classified
         /\ Len(last.posts) = 1
         /\ last.posts[1].kind = "stale"

\* a suppressed staleness issue was followed, in the same delivery, by a posted
\* classifier issue
C32_IssuePostedAfterSuppressedStale ==
  /\ variant = "part_001"
  /\ last.staleIssue # Null
  /\ StaleDupCall.dup
  /\ last.classified /\ last.isStaleUpdate
  /\ last.issue # Null
  /\ ~PassedWithinWindow(last.dups[2], last.at)
  /\ Len(last.posts) = 1 /\ last.posts[1].kind = "issue"

----------------------------------------------------------------------------
(* part_001: the recent-alerts table after a call of isDuplicateAlert *)

\* the latest delivery's last call of isDuplicateAlert
LastDupCall == last.dups[Len(last.dups)]

\* C33: after a delivery that called isDuplicateAlert at time now, no entry of
\* recentAlerts is older than now minus 5 minutes and the key of the call is in
\* the table
C33_TableSweptAndKeyPresent ==
  variant = "part_001" /\ last.dups # << >> =>
    /\ last.at = now
    /\ \A k \in DOMAIN recentAlerts : recentAlerts[k] >= now - 5 * MsPerMinute
    /\ LastDupCall.key \in DOMAIN recentAlerts
    /\ recentAlerts[LastDupCall.key] =
         IF LastDupCall.dup THEN LastDupCall.prevPass ELSE now

\* a call of isDuplicateAlert evicted the entry of a key that had passed before
C33_OldEntryEvicted ==
  /\ variant = "part_001"
  /\ last.dups # << >>
  /\ \E k \in DOMAIN passAt : k \notin DOMAIN recentAlerts

\* C34: a suppressed call of isDuplicateAlert leaves the timestamp of its key as
\* it was, the time of the last call with the key that was not suppressed, so
\* the window runs from the last alert that passed and a call more than 5
\* minutes after it passes, whatever was suppressed in between
C34_SuppressedKeepsTimestamp ==
  variant = "part_001" =>
    \A n \in 1..Len(last.dups) :
      LET c == last.dups[n] IN
        /\ c.dup =>
             /\ c.key \in DOMAIN recentAlerts
             /\ c.prevPass # NoTime
             /\ recentAlerts[c.key] = c.prevPass
             /\ LastTime(passAt, c.key) = c.prevPass
        /\ ~c.dup => LastTime(passAt, c.key) = last.at

\* of three identical triggers three minutes apart the first passed, the second
\* was suppressed and the third, six minutes after the first, passed
C34_PassedAfterSuppressed ==
  /\ variant = "part_001"
  /\ last.dups # << >>
  /\ ~LastDupCall.dup
  /\ trace[last.item].calls = 3
  /\ LastDupCall.prevPass = trace[last.item].runStart
  /\ now - LastDupCall.prevPass = 6 * MsPerMinute

\* C35: the key is recorded when isDuplicateAlert is called, whatever becomes of
\* the post: after a post that failed the table holds the key with the time of
\* the call, and a call with a key that passed no more than 5 minutes earlier
\* without a delivered post is suppressed and no alert with the key is posted
C35_RecordedAtCheck ==
  variant = "part_001" =>
    /\ \A m \in 1..Len(last.posts) :
         LET p == last.posts[m] IN
           (p.kind # "test" /\ ~p.ok) =>
             p.key \in DOMAIN recentAlerts /\ recentAlerts[p.key] = last.at
    /\ \A n \in 1..Len(last.dups) :
         LET c == last.dups[n] IN
           (/\ c.prevPass # NoTime
            /\ last.at - c.prevPass <= 5 * MsPerMinute
            /\ LastTime(postAt, c.key) # c.prevPass) =>
             /\ c.dup
             /\ \A m \in 1..Len(last.posts) : last.posts[m].key # c.key

\* a trigger was suppressed within 5 minutes of an identical one whose post had
\* failed: no alert with the key was ever delivered
C35_SuppressedAfterFailedPost ==
  /\ variant = "part_001"
  /\ last.dups # << >>
  /\ LastDupCall.dup
  /\ now - LastDupCall.prevPass <= 5 * MsPerMinute
  /\ LastTime(postAt, LastDupCall.key) = NoTime
  /\ last.posts = << >>

----------------------------------------------------------------------------
(* part_001: the location of an alert *)

\* the location the order of the resolver gives: the latest-location text of the
\* item when it is not empty, else the classifier's location, else the location
\* extracted from the update text, else the sentinel
LocationInOrder(row, issue, updateText) ==
  IF row.location # "" THEN row.location
  ELSE IF issue # Null /\ ExtractedLocation(issue) # "" THEN ExtractedLocation(issue)
  ELSE IF ExtractLocationFromUpdate(updateText) # ""
  THEN ExtractLocationFromUpdate(updateText)
  ELSE "Unknown Location"

\* the latest delivery posted an alert of part_001, for a staleness issue or for
\* an issue of the classifier
AlertP1(kind) ==
  /\ variant = "part_001"
  /\ Len(last.posts) = 1
  /\ last.posts[1].kind = kind

\* C36 as stated: the location of every alert of part_001, staleness alerts
\* included, is the latest-location text when not empty, else the classifier's
\* location, else the location extracted from the update text, else "Unknown
\* Location"
C36_LocationResolvedInOrder ==
  AlertP1("stale") \/ AlertP1("issue") =>
    last.location = LocationInOrder(last.row, last.issue, last.text)

\* the same for the alerts of the classifier's issues whose latest-location text
\* does not read "Unknown Location"
C36_IssueLocationResolvedInOrder ==
  AlertP1("issue") /\ last.row.location # "Unknown Location" =>
    last.location = LocationInOrder(last.row, last.issue, last.text)

----------------------------------------------------------------------------
(* part_002: the coordinator of a message *)

\* C37 as stated: in part_002 the message for an issue whose update text asks
\* for a customer notification addresses no coordinator, and the message for
\* any other issue addresses one
C37_NoMentionOnCustomerFailure ==
  variant = "part_002" /\ last.posts # << >> =>
    IF ShouldNotifyCustomer(last.text) # "" THEN last.coordinator = ""
    ELSE last.coordinator # ""

\* the messages of part_002 for issues whose text asks for no customer
\* notification address a coordinator
C37_MentionOnOtherIssues ==
  variant = "part_002" /\ last.posts # << >> /\ ShouldNotifyCustomer(last.text) = "" =>
    last.coordinator \in {Mention(HARITHA_USER_ID), Mention(RACHEL_USER_ID)}

----------------------------------------------------------------------------
(* The collaborator calls of one delivery *)

\* the board writes of all items
WritesMade(writes) == LET Sum[S \in SUBSET Items] ==
                            IF S = {} THEN 0
                            ELSE LET i == CHOOSE i \in S : TRUE
                                 IN Len(writes[i]) + Sum[S \ {i}]
                      IN Sum[Items]

----------------------------------------------------------------------------
(* part_001: the records of updateHistory *)

\* C39: after every step each record of updateHistory has updateCount >= 1 and
\* firstSeenAt <= lastSeenAt, its text is the text of the latest tracker call for
\* the item, its updateCount the number of consecutive tracker calls for the item
\* with that text and its firstSeenAt the time of the first of them; and an item
\* that has a record keeps one
C39_RecordCountsRun ==
  [][\A i \in Items :
       /\ updateHistory[i] # Null => updateHistory'[i] # Null
       /\ updateHistory'[i] # Null =>
            /\ updateHistory'[i].updateCount >= 1
            /\ updateHistory'[i].firstSeenAt <= updateHistory'[i].lastSeenAt
            /\ updateHistory'[i].lastSeenAt <= now'
            /\ updateHistory'[i].lastUpdateText = trace'[i].text
            /\ updateHistory'[i].updateCount = trace'[i].calls
            /\ updateHistory'[i].firstSeenAt = trace'[i].runStart
       /\ updateHistory'[i] = Null => trace'[i].calls = 0]_vars

\* the text of an item changed after two calls with the same text: the record
\* is kept and counts the one call of the new text
C39_CountRestartsOnChange ==
  /\ variant = "part_001"
  /\ last.staleBefore # Null
  /\ last.staleBefore.updateCount = 2
  /\ last.staleBefore.lastUpdateText # last.text
  /\ updateHistory[last.item].lastUpdateText = last.text
  /\ updateHistory[last.item].updateCount = 1
  /\ updateHistory[last.item].firstSeenAt = now

----------------------------------------------------------------------------
(* The trackers, item by item *)

\* whether checkForStaleUpdate returns an issue, from the record of the item, the
\* text and the time alone
StaleEmitted(record, updateText, t) ==
  /\ record # Null
  /\ record.lastUpdateText = updateText
  /\ t - record.firstSeenAt > staleThresholdHours * MsPerHour

\* whether checkAmbiguousStatus returns an issue, from the record of the item,
\* the text and the time alone
AmbiguousEmitted(record, updateText, t) ==
  LET lowerText == ToLowerCase(updateText)
      m == FirstAmbiguous(AMBIGUOUS_STATUSES(variant), lowerText)
  IN /\ m # 0
     /\ record # Null
     /\ Includes(lowerText, record.status)
     /\ t - record.firstSeenAt >= AMBIGUOUS_STATUSES(variant)[m].hours * MsPerHour

\* C40: a delivery for an item leaves the updateHistory and ambiguousStatusHistory
\* records of every other item as they were, and whether checkForStaleUpdate or
\* checkAmbiguousStatus returns an issue for the item is decided by the item's
\* own record, the text of the delivery and the time
C40_TrackersIsolatedPerItem ==
  [][events' = events + 1 =>
       /\ \A i \in Items \ {last'.item} :
            /\ updateHistory'[i] = updateHistory[i]
            /\ ambiguousStatusHistory'[i] = ambiguousStatusHistory[i]
       /\ last'.staleCalled =>
            (last'.staleIssue # Null)
              = StaleEmitted(updateHistory[last'.item], last'.text, now')
       /\ last'.ambCalled =>
            (last'.ambIssue # Null)
              = AmbiguousEmitted(ambiguousStatusHistory[last'.item], last'.text, now')
       /\ ~last'.staleCalled => updateHistory' = updateHistory
       /\ ~last'.ambCalled => ambiguousStatusHistory' = ambiguousStatusHistory]_vars

\* a tracker returned an issue for an item while another item, first seen later,
\* has a record of its own, which the call left alone
C40_IssueNextToOtherRecord ==
  \E i \in Items \ {last.item} :
    \/ /\ last.staleIssue # Null
       /\ updateHistory[i] # Null
       /\ updateHistory[i].firstSeenAt > last.staleBefore.firstSeenAt
       /\ updateHistory[i].updateCount = 1
    \/ /\ last.ambIssue # Null
       /\ ambiguousStatusHistory[i] # Null
       /\ ambiguousStatusHistory[i].firstSeenAt > last.ambBefore.firstSeenAt

====
